---- MODULE Spec2Model ----
(***************************************************************************)
(* A model of the datasheet extraction pipeline of                         *)
(* Document-Intelligence-Script (src/main.py, src/config_parameters.py).   *)
(*                                                                         *)
(* Strings are sequences of one-character strings, so that the regular     *)
(* expressions and the substring tests of the code are computed character  *)
(* by character.  Each component of the pipeline has its own specification *)
(* (SpecClean, SpecResolver, ...) over the shared variables; the variables *)
(* a specification does not use stay at their idle values.                 *)
(***************************************************************************)
EXTENDS Integers, Sequences, FiniteSets, TLC

VARIABLES
    \* ---- clean_parameter_value (src/main.py:60-78) ----
    value,          \* the argument of clean_parameter_value
    cleaned,        \* clean_parameter_value(value)
    recleaned,      \* clean_parameter_value(cleaned)
    cpc,            \* "in" | "once" | "twice" | "idle"
    \* ---- one document in extract_grouped_data (src/main.py:346-978) ----
    filename,       \* os.path.basename(pdf_path)
    pages,          \* pdf.pages: what the extraction primitive yields per page
    open_error,     \* pdfplumber.open(pdf_path) raises
    detected_fiber_counts,  \* the resolved variant labels
    pc,             \* the position in extract_grouped_data, "idle" when unused
    fibre_data,             \* per variant: Document_Text_Content, Technical_Specifications
    current_section,        \* the section the last classified row set
    fiber_column_mappings,  \* variant -> column, built by fibre-count header rows
    fiber_specific_values,  \* the values kept aside for the end of the document
    COLUMN_MAPPINGS,        \* the module-level mapping of main.py
    todo,                   \* the page texts and table rows still to be processed
    consulted,              \* <<table of the header row, table of the row>> per lookup
    parameters_to_move,     \* what the Reconciliation Pass took out, last variant
    \* ---- the process-wide registry (src/config_parameters.py) ----
    dynamic_params,     \* param_manager.dynamic_params, the learned overlay
    SECTION_KEYWORDS,   \* what lookups appended to the lists of the keyword table
    config_file,        \* the content of dynamic_parameters.json
    disk,               \* "ok" | "readonly": whether the overlay can be written
    calls,              \* the number of registry calls made
    assigned,           \* <<name, section>> pairs, for the stability claim
    \* ---- concurrent uploads (src/main.py:982-1032) ----
    request,            \* per request: the position of its coroutine, its input
    running,            \* the request whose coroutine holds the event loop, or 0
    \* ---- successive uploads in one process (src/main.py:982-1032) ----
    response,           \* what extract_pdf returned for the last document
    served,             \* the number of documents answered
    start_reg           \* the registry as the current document found it

cleanVars == <<value, cleaned, recleaned, cpc>>

runVars == <<fibre_data, current_section, fiber_column_mappings,
             fiber_specific_values, COLUMN_MAPPINGS, todo, consulted,
             parameters_to_move>>

docVars == <<filename, pages, open_error, detected_fiber_counts, pc,
             fibre_data, current_section, fiber_column_mappings,
             fiber_specific_values, COLUMN_MAPPINGS, todo, consulted,
             parameters_to_move>>

concVars == <<request, running>>

svcVars == <<response, served, start_reg>>

regVars == <<dynamic_params, SECTION_KEYWORDS, config_file, disk, calls, assigned>>

vars == <<value, cleaned, recleaned, cpc,
          filename, pages, open_error, detected_fiber_counts, pc,
          fibre_data, current_section, fiber_column_mappings,
          fiber_specific_values, COLUMN_MAPPINGS, todo, consulted,
          parameters_to_move,
          dynamic_params, SECTION_KEYWORDS, config_file, disk, calls, assigned,
          request, running, response, served, start_reg>>

-----------------------------------------------------------------------------
(* Character classes of Python's re module, restricted to ASCII.           *)

Digits == {"0", "1", "2", "3", "4", "5", "6", "7", "8", "9"}

UpperAZ == {"A", "B", "C", "D", "E", "F", "G", "H", "I", "J", "K", "L", "M",
            "N", "O", "P", "Q", "R", "S", "T", "U", "V", "W", "X", "Y", "Z"}

Whitespace == {" ", "\t", "\n", "\r", "\f"}

IsDigit(c) == c \in Digits

IsUpperAZ(c) == c \in UpperAZ

IsSpace(c) == c \in Whitespace

\* A string literal as the sequence of its characters
Chars(str) == [i \in 1..Len(str) |-> SubSeq(str, i, i)]

\* x = e; then Body, which uses x.  Bind2 and Bind3 name two and three
\* values.  The values are computed before Body, as the statements of the
\* code compute them: TLC would otherwise compute an argument where Body
\* first uses it
Bind(e, Body(_)) == IF e = e THEN Body(e) ELSE Body(e)

Bind2(e1, e2, Body(_, _)) ==
    IF e1 = e1 /\ e2 = e2 THEN Body(e1, e2) ELSE Body(e1, e2)

Bind3(e1, e2, e3, Body(_, _, _)) ==
    IF e1 = e1 /\ e2 = e2 /\ e3 = e3 THEN Body(e1, e2, e3) ELSE Body(e1, e2, e3)

\* The first index >= i of s whose character is not in class, Len(s)+1 if none:
\* where a greedy  [class]*  started at i stops.
SkipClass(s, i, class) ==
    LET stops == { j \in i..Len(s) : s[j] \notin class }
    IN IF stops = {} THEN Len(s) + 1
       ELSE CHOOSE j \in stops : \A h \in stops : j <= h

\* s[i..] starts with the literal lit
StartsWithAt(s, i, lit) ==
    /\ i + Len(lit) - 1 <= Len(s)
    /\ \A k \in 1..Len(lit) : s[i + k - 1] = lit[k]

\* str.strip(): whitespace removed at both ends
RStrip(s) ==
    LET kept == { j \in 1..Len(s) : ~IsSpace(s[j]) }
    IN IF kept = {} THEN <<>>
       ELSE SubSeq(s, 1, CHOOSE j \in kept : \A h \in kept : h <= j)

Strip(s) ==
    Bind(RStrip(s), LAMBDA r : SubSeq(r, SkipClass(r, 1, Whitespace), Len(r)))

\* the concatenation of the sequences of fs
RECURSIVE Concat(_)
Concat(fs) == IF fs = <<>> THEN <<>> ELSE Head(fs) \o Concat(Tail(fs))

-----------------------------------------------------------------------------
(* clean_parameter_value, src/main.py:60-78                                *)

IEC == Chars("IEC-")

\* r'\s*IEC-[\d-]+(?:-[A-Z]\d+)?\s*' tried at index i: the index after the
\* match, 0 when there is none.  [\d-]+ is greedy and the rest of the pattern
\* can match the empty string, so the engine never gives a character back:
\* the optional group is tried where [\d-]+ stopped.
MatchIECAt(s, i) ==
    Bind2(SkipClass(s, i, Whitespace),
          SkipClass(s, SkipClass(s, i, Whitespace) + Len(IEC), Digits \cup {"-"}),
          LAMBDA j, k2 :
        IF StartsWithAt(s, j, IEC) /\ k2 > j + Len(IEC)
        THEN SkipClass(s, IF /\ k2 + 2 <= Len(s)
                             /\ s[k2] = "-"
                             /\ IsUpperAZ(s[k2 + 1])
                             /\ IsDigit(s[k2 + 2])
                          THEN SkipClass(s, k2 + 2, Digits) ELSE k2,
                       Whitespace)
        ELSE 0)

\* re.sub(r'\s*IEC-[\d-]+(?:-[A-Z]\d+)?\s*', '', value): every leftmost
\* non-overlapping match removed, scanning from index i
RECURSIVE SubIEC(_, _)
SubIEC(s, i) ==
    Bind({ j \in i..Len(s) : MatchIECAt(s, j) > 0 }, LAMBDA starts :
        IF starts = {} THEN SubSeq(s, i, Len(s))
        ELSE Bind(CHOOSE j \in starts : \A h \in starts : j <= h, LAMBDA from :
                SubSeq(s, i, from - 1) \o SubIEC(s, MatchIECAt(s, from))))

\* '$' of the re module: at the end, or just before a final newline
AtDollar(s, e) == e = Len(s) + 1 \/ (e = Len(s) /\ s[e] = "\n")

\* r'([A-Z]\d+)$' matches at index i
MatchCodeAt(s, i) ==
    /\ i + 1 <= Len(s)
    /\ IsUpperAZ(s[i])
    /\ IsDigit(s[i + 1])
    /\ AtDollar(s, SkipClass(s, i + 1, Digits))

\* the trailing-code step left out
SubTrailingCode_Skip(s) == s

\* re.sub(r'([A-Z]\d+)$', '', cleaned)
SubTrailingCode(s) ==
    IF \E i \in 1..Len(s) : MatchCodeAt(s, i)
    THEN Bind(CHOOSE i \in 1..Len(s) :
                  /\ MatchCodeAt(s, i)
                  /\ \A h \in 1..(i - 1) : ~MatchCodeAt(s, h),
              LAMBDA i : SubSeq(s, 1, i - 1)
                         \o SubSeq(s, SkipClass(s, i + 1, Digits), Len(s)))
    ELSE s

\* re.match(r'^[A-Z]\d+$', t)
IsBareCode(t) ==
    /\ Len(t) >= 2
    /\ IsUpperAZ(t[1])
    /\ IsDigit(t[2])
    /\ AtDollar(t, SkipClass(t, 2, Digits))

\* re.sub(r'\s+', ' ', s): every run of whitespace becomes one space
CollapseSpaces(s, i) ==
    LET kept == { j \in i..Len(s) : ~IsSpace(s[j]) \/ j = i \/ ~IsSpace(s[j - 1]) }
        Nth(n) == CHOOSE j \in kept : Cardinality({ h \in kept : h < j }) = n - 1
    IN [n \in 1..Cardinality(kept) |->
           IF IsSpace(s[Nth(n)]) THEN " " ELSE s[Nth(n)]]

clean_parameter_value(v) ==
    IF v = <<>> THEN v
    ELSE Bind(SubTrailingCode(SubIEC(v, 1)), LAMBDA c2 :
            IF IsBareCode(Strip(c2)) THEN <<>>
            ELSE Strip(CollapseSpaces(c2, 1)))

-----------------------------------------------------------------------------
(* Letters, numbers and labels                                             *)

LowerSeq == <<"a", "b", "c", "d", "e", "f", "g", "h", "i", "j", "k", "l", "m",
              "n", "o", "p", "q", "r", "s", "t", "u", "v", "w", "x", "y", "z">>

UpperSeq == <<"A", "B", "C", "D", "E", "F", "G", "H", "I", "J", "K", "L", "M",
              "N", "O", "P", "Q", "R", "S", "T", "U", "V", "W", "X", "Y", "Z">>

DigitSeq == <<"0", "1", "2", "3", "4", "5", "6", "7", "8", "9">>

\* str.lower() and str.upper(), one character
LowerChar(c) ==
    IF c \in UpperAZ THEN LowerSeq[CHOOSE i \in 1..26 : UpperSeq[i] = c] ELSE c

UpperChar(c) ==
    IF \E i \in 1..26 : LowerSeq[i] = c
    THEN UpperSeq[CHOOSE i \in 1..26 : LowerSeq[i] = c] ELSE c

Lower(s) == [i \in 1..Len(s) |-> LowerChar(s[i])]

Upper(s) == [i \in 1..Len(s) |-> UpperChar(s[i])]

\* int() of a run of digits
RECURSIVE ParseInt(_)
ParseInt(ds) ==
    IF ds = <<>> THEN 0
    ELSE 10 * ParseInt(SubSeq(ds, 1, Len(ds) - 1))
         + (CHOOSE d \in 0..9 : DigitSeq[d + 1] = ds[Len(ds)])

\* str() of a natural number
RECURSIVE IntToStr(_)
IntToStr(n) ==
    IF n < 10 THEN <<DigitSeq[n + 1]>>
    ELSE IntToStr(n \div 10) \o <<DigitSeq[(n % 10) + 1]>>

\* f"{count}F"
Label(n) == IntToStr(n) \o <<"F">>

\* int(fc.replace('F', ''))
RemoveF(fc) == SelectSeq(fc, LAMBDA c : c # "F")

LabelCount(fc) == ParseInt(RemoveF(fc))

\* x in list
InSeq(x, list) == \E i \in 1..Len(list) : list[i] = x

\* a in b, for strings
IsSubstr(a, b) == \E i \in 1..(Len(b) - Len(a) + 1) : StartsWithAt(b, i, a)

\* the literal lit (in lower case) at s[i..], under re.IGNORECASE
StartsWithAtCI(s, i, lit) ==
    /\ i + Len(lit) - 1 <= Len(s)
    /\ \A k \in 1..Len(lit) : LowerChar(s[i + k - 1]) = lit[k]

-----------------------------------------------------------------------------
(* config_parameters.py: the allow-list                                    *)

VALID_FIBER_COUNTS == <<2, 4, 6, 8, 12, 24, 48, 96, 144, 288>>

\* count in VALID_FIBER_COUNTS
IsValidCount(n) == InSeq(n, VALID_FIBER_COUNTS)

-----------------------------------------------------------------------------
(* extract_primary_fiber_count_from_filename, src/main.py:124-158          *)

NoMatch == [end |-> 0, grp |-> <<>>]

\* r'\d+F' at index i (case-sensitive): the index after it, 0 if none
MatchCountFAt(s, i) ==
    LET j == SkipClass(s, i, Digits)
    IN IF i <= Len(s) /\ j > i /\ j <= Len(s) /\ s[j] = "F" THEN j + 1 ELSE 0

\* the repetition (?:,\d+F)* from index i: the index after it
RECURSIVE CommaRunEnd(_, _)
CommaRunEnd(s, i) ==
    IF i <= Len(s) /\ s[i] = "," /\ MatchCountFAt(s, i + 1) > 0
    THEN CommaRunEnd(s, MatchCountFAt(s, i + 1))
    ELSE i

\* re.findall(r'(\d+)F', s): the digit runs, scanning from index i
RECURSIVE FindCountsF(_, _)
FindCountsF(s, i) ==
    IF i > Len(s) THEN <<>>
    ELSE LET e == MatchCountFAt(s, i)
         IN IF e > 0 THEN <<SubSeq(s, i, e - 2)>> \o FindCountsF(s, e)
            ELSE FindCountsF(s, i + 1)

\* re.findall(r'(\d+F(?:,\d+F)*)', s): the matched texts, scanning from index i
RECURSIVE FindCommaSeparated(_, _)
FindCommaSeparated(s, i) ==
    IF i > Len(s) THEN <<>>
    ELSE LET e == MatchCountFAt(s, i)
         IN IF e > 0
            THEN LET e2 == CommaRunEnd(s, e)
                 IN <<SubSeq(s, i, e2 - 1)>> \o FindCommaSeparated(s, e2)
            ELSE FindCommaSeparated(s, i + 1)

\* all_counts.extend([int(c) for c in re.findall(r'(\d+)F', match)]) over the matches
RECURSIVE CountsOfMatches(_)
CountsOfMatches(ms) ==
    IF ms = <<>> THEN <<>>
    ELSE LET ds == FindCountsF(Head(ms), 1)
         IN [k \in 1..Len(ds) |-> ParseInt(ds[k])] \o CountsOfMatches(Tail(ms))

\* list.sort(reverse=True): insertion of x into a descending list
RECURSIVE InsertDesc(_, _)
InsertDesc(x, list) ==
    IF list = <<>> THEN <<x>>
    ELSE IF x >= Head(list) THEN <<x>> \o list
    ELSE <<Head(list)>> \o InsertDesc(x, Tail(list))

RECURSIVE SortDesc(_)
SortDesc(list) ==
    IF list = <<>> THEN <<>> ELSE InsertDesc(Head(list), SortDesc(Tail(list)))

\* ValidCounts without the allow-list test
ValidCounts_NoFilter(counts) == counts

\* [c for c in counts if c in VALID_FIBER_COUNTS]
ValidCounts(counts) == SelectSeq(counts, IsValidCount)

\* [f"{c}F" for c in valid_counts]
Labels(counts) == [k \in 1..Len(counts) |-> Label(counts[k])]

extract_primary_fiber_count_from_filename(fname) ==
    LET filename_upper == Upper(fname)
        comma_separated_matches == FindCommaSeparated(filename_upper, 1)
        all_counts == CountsOfMatches(comma_separated_matches)
        valid1 == ValidCounts(all_counts)
        matches == FindCountsF(filename_upper, 1)
        counts == [k \in 1..Len(matches) |-> ParseInt(matches[k])]
        valid2 == ValidCounts(counts)
    IN IF comma_separated_matches # <<>> /\ all_counts # <<>> /\ valid1 # <<>>
       THEN Labels(SortDesc(valid1))
       ELSE IF matches # <<>> /\ valid2 # <<>>
       THEN Labels(SortDesc(valid2))
       ELSE <<>>

-----------------------------------------------------------------------------
(* extract_fiber_counts_from_text, src/main.py:99-122, with                *)
(* FIBER_COUNT_TEXT_PATTERNS, src/config_parameters.py:124-130             *)

\* r'(\d+)F' at index i under re.IGNORECASE: [end, grp], NoMatch if none
MatchDigitsFAt(s, i) ==
    LET j == SkipClass(s, i, Digits)
    IN IF i <= Len(s) /\ j > i /\ j <= Len(s) /\ LowerChar(s[j]) = "f"
       THEN [end |-> j + 1, grp |-> SubSeq(s, i, j - 1)]
       ELSE NoMatch

\* (?:fiber|fibre) at index i: the index after it, 0 if none
FiberWordEnd(s, i) ==
    IF StartsWithAtCI(s, i, Chars("fiber")) \/ StartsWithAtCI(s, i, Chars("fibre"))
    THEN i + 5 ELSE 0

\* r'(?:fiber|fibre)\s+count:?\s*(\d+)F?'
MatchFiberCountAt(s, i) ==
    LET a == FiberWordEnd(s, i)
        b == SkipClass(s, a, Whitespace)
        c == b + 5
        d == IF c <= Len(s) /\ s[c] = ":" THEN c + 1 ELSE c
        e == SkipClass(s, d, Whitespace)
        f == SkipClass(s, e, Digits)
        g == IF f <= Len(s) /\ LowerChar(s[f]) = "f" THEN f + 1 ELSE f
    IN IF a > 0 /\ b > a /\ StartsWithAtCI(s, b, Chars("count")) /\ f > e
       THEN [end |-> g, grp |-> SubSeq(s, e, f - 1)]
       ELSE NoMatch

\* r'(\d+)F\s+(?:fiber|fibre)'
MatchCountFiberAt(s, i) ==
    LET m == MatchDigitsFAt(s, i)
        b == SkipClass(s, m.end, Whitespace)
    IN IF m.end > 0 /\ b > m.end /\ FiberWordEnd(s, b) > 0
       THEN [end |-> FiberWordEnd(s, b), grp |-> m.grp]
       ELSE NoMatch

\* r'(\d+)F\s*[,/&]'
MatchCountSepAt(s, i) ==
    LET m == MatchDigitsFAt(s, i)
        b == SkipClass(s, m.end, Whitespace)
    IN IF m.end > 0 /\ b <= Len(s) /\ s[b] \in {",", "/", "&"}
       THEN [end |-> b + 1, grp |-> m.grp]
       ELSE NoMatch

\* r'(\d+)F\s*(?:cable|optical)'
MatchCountCableAt(s, i) ==
    LET m == MatchDigitsFAt(s, i)
        b == SkipClass(s, m.end, Whitespace)
    IN IF m.end > 0 /\ StartsWithAtCI(s, b, Chars("cable"))
       THEN [end |-> b + 5, grp |-> m.grp]
       ELSE IF m.end > 0 /\ StartsWithAtCI(s, b, Chars("optical"))
       THEN [end |-> b + 7, grp |-> m.grp]
       ELSE NoMatch

\* the lookahead (?=\s|$|[,/&]) at index e
StandaloneAhead(s, e) ==
    \/ AtDollar(s, e)
    \/ (e <= Len(s) /\ (IsSpace(s[e]) \/ s[e] \in {",", "/", "&"}))

\* r'(?:^|\s)(\d+)F(?=\s|$|[,/&])': '^' is tried first, then '\s'
MatchStandaloneAt(s, i) ==
    LET m1 == IF i = 1 THEN MatchDigitsFAt(s, i) ELSE NoMatch
        m2 == IF i <= Len(s) /\ IsSpace(s[i]) THEN MatchDigitsFAt(s, i + 1) ELSE NoMatch
    IN IF m1.end > 0 /\ StandaloneAhead(s, m1.end) THEN m1
       ELSE IF m2.end > 0 /\ StandaloneAhead(s, m2.end) THEN m2
       ELSE NoMatch

\* FIBER_COUNT_TEXT_PATTERNS[k - 1] tried at index i
MatchTextPatternAt(k, s, i) ==
    CASE k = 1 -> MatchFiberCountAt(s, i)
      [] k = 2 -> MatchCountFiberAt(s, i)
      [] k = 3 -> MatchCountSepAt(s, i)
      [] k = 4 -> MatchCountCableAt(s, i)
      [] k = 5 -> MatchStandaloneAt(s, i)

NumTextPatterns == 5

\* re.finditer(pattern, text, re.IGNORECASE) from index i: the counts
\* int(match.group(1)) of the leftmost non-overlapping matches
RECURSIVE FindIterCounts(_, _, _)
FindIterCounts(k, s, i) ==
    LET starts == { j \in i..Len(s) : MatchTextPatternAt(k, s, j).end > 0 }
        m == MatchTextPatternAt(k, s, CHOOSE j \in starts : \A h \in starts : j <= h)
    IN IF starts = {} THEN <<>>
       ELSE <<ParseInt(m.grp)>> \o FindIterCounts(k, s, m.end)

\* the repetition (?:\s*,\s*\d+F)+ from index i: the index after the last
\* complete item, i when there is none
RECURSIVE CommaListEnd(_, _)
CommaListEnd(s, i) ==
    LET a == SkipClass(s, i, Whitespace)
        b == SkipClass(s, a + 1, Whitespace)
        m == MatchDigitsFAt(s, b)
    IN IF a <= Len(s) /\ s[a] = "," /\ m.end > 0
       THEN CommaListEnd(s, m.end)
       ELSE i

\* re.finditer(r'(\d+F(?:\s*,\s*\d+F)+)', text, re.IGNORECASE) from index i,
\* each match searched with re.findall(r'(\d+)F', match.group(1))
RECURSIVE FindCommaListCounts(_, _)
FindCommaListCounts(s, i) ==
    LET End(j) == CommaListEnd(s, MatchDigitsFAt(s, j).end)
        starts == { j \in i..Len(s) :
                      MatchDigitsFAt(s, j).end > 0 /\ End(j) > MatchDigitsFAt(s, j).end }
        from == CHOOSE j \in starts : \A h \in starts : j <= h
        ds == FindCountsF(SubSeq(s, from, End(from) - 1), 1)
    IN IF starts = {} THEN <<>>
       ELSE [k \in 1..Len(ds) |-> ParseInt(ds[k])]
            \o FindCommaListCounts(s, End(from))

SeqRange(list) == { list[k] : k \in 1..Len(list) }

\* the set fiber_counts built by extract_fiber_counts_from_text
TextFiberCountSet(text) ==
    LET found == UNION { SeqRange(FindIterCounts(k, text, 1)) : k \in 1..NumTextPatterns }
                 \cup SeqRange(FindCommaListCounts(text, 1))
    IN { Label(n) : n \in { c \in found : IsValidCount(c) } }

\* every order of a set as a list: list(fiber_counts) iterates a set of
\* strings, whose order depends on the interpreter's string hashing
ListsOfSet(S) ==
    { f \in [1..Cardinality(S) -> S] : \A x \in S : \E k \in 1..Cardinality(S) : f[k] = x }

\* the values extract_fiber_counts_from_text(text) can return
extract_fiber_counts_from_text(text) == ListsOfSet(TextFiberCountSet(text))

-----------------------------------------------------------------------------
(* calculate_fiber_count_from_construction, src/main.py:160-194            *)
(* A table is a sequence of rows, a row a sequence of cells, a cell a      *)
(* string or None.                                                         *)

NoneCell == <<"None">>

NoInt == -1

\* [str(cell).strip() for cell in row if cell is not None]
CellsNotNone(row) ==
    LET kept == SelectSeq(row, LAMBDA cell : cell # NoneCell)
    IN [k \in 1..Len(kept) |-> Strip(kept[k])]

\* str.isdigit() on ASCII
IsDigitStr(cell) == cell # <<>> /\ \A k \in 1..Len(cell) : IsDigit(cell[k])

\* any(pattern in param_name for pattern in patterns)
AnySubstr(patterns, text) == \E p \in patterns : IsSubstr(p, text)

FibresPerTubeWords == { Chars("fiber per tube"), Chars("fibre per tube"), Chars("fibres per tube") }

NumTubesWords == { Chars("number of tube"), Chars("loose tube"), Chars("tubes") }

\* the reasonable tube count of line 184
MaxTubes == 50

\* the scan 'for cell in cleaned[1:]: if <accepted>: ...; break' for fibres per
\* tube: the first digit cell, NoInt when there is none
FirstDigitCell(cells, k) ==
    LET hits == { j \in k..Len(cells) : IsDigitStr(cells[j]) }
    IN IF hits = {} THEN NoInt
       ELSE ParseInt(cells[CHOOSE j \in hits : \A h \in hits : j <= h])

\* the same scan for the number of tubes: the first digit cell <= 50
FirstTubeCell(cells, k) ==
    LET hits == { j \in k..Len(cells) :
                    IsDigitStr(cells[j]) /\ ParseInt(cells[j]) <= MaxTubes }
    IN IF hits = {} THEN NoInt
       ELSE ParseInt(cells[CHOOSE j \in hits : \A h \in hits : j <= h])

\* one row of the scan: acc = <<fibers_per_tube, num_tubes>>
ConstructionRow(acc, row) ==
    LET cl == CellsNotNone(row)
        param_name == Lower(cl[1])
        f == IF AnySubstr(FibresPerTubeWords, param_name) /\ FirstDigitCell(cl, 2) # NoInt
             THEN FirstDigitCell(cl, 2) ELSE acc[1]
        t == IF AnySubstr(NumTubesWords, param_name) /\ FirstTubeCell(cl, 2) # NoInt
             THEN FirstTubeCell(cl, 2) ELSE acc[2]
    IN IF Len(cl) < 2 THEN acc ELSE <<f, t>>

RECURSIVE ConstructionRows(_, _)
ConstructionRows(acc, rows) ==
    IF rows = <<>> THEN acc
    ELSE ConstructionRows(ConstructionRow(acc, Head(rows)), Tail(rows))

RECURSIVE ConstructionTables(_, _)
ConstructionTables(acc, tbls) ==
    IF tbls = <<>> THEN acc
    ELSE ConstructionTables(ConstructionRows(acc, Head(tbls)), Tail(tbls))

\* the label, or <<>> for None
calculate_fiber_count_from_construction(tbls) ==
    LET r == ConstructionTables(<<NoInt, NoInt>>, tbls)
        fibers_per_tube == r[1]
        num_tubes == r[2]
        total_fibers == fibers_per_tube * num_tubes
    IN IF fibers_per_tube > 0 /\ num_tubes > 0 /\ IsValidCount(total_fibers)
       THEN Label(total_fibers)
       ELSE <<>>

-----------------------------------------------------------------------------
(* The priority cascade of extract_grouped_data, src/main.py:389-438       *)

\* AddCalculated that puts the calculated label in front
AddCalculated_First(detected, calc_count) ==
    IF calc_count # <<>> THEN <<calc_count>> \o detected ELSE detected

\* Priority 2, lines 397-406
AddCalculated(detected, calc_count) ==
    IF calc_count # <<>> /\ ~InSeq(calc_count, detected)
    THEN IF detected = <<>> THEN Append(detected, calc_count)
         ELSE IF IsValidCount(LabelCount(calc_count)) THEN Append(detected, calc_count)
         ELSE detected
    ELSE detected

\* AddTextDetected without the test against the filename list
AddTextDetected_Liberal(detected, fc, filename_fiber_counts) ==
    IF ~InSeq(fc, detected) /\ IsValidCount(LabelCount(fc))
    THEN Append(detected, fc) ELSE detected

\* Priority 3, one turn of the loop of lines 409-421
AddTextDetected(detected, fc, filename_fiber_counts) ==
    IF ~InSeq(fc, detected)
    THEN IF filename_fiber_counts # <<>>
         THEN IF InSeq(fc, filename_fiber_counts) /\ ~InSeq(fc, detected)
              THEN Append(detected, fc) ELSE detected
         ELSE IF IsValidCount(LabelCount(fc)) THEN Append(detected, fc) ELSE detected
    ELSE detected

RECURSIVE AddAllTextDetected(_, _, _)
AddAllTextDetected(detected, text_detected_counts, filename_fiber_counts) ==
    IF text_detected_counts = <<>> THEN detected
    ELSE AddAllTextDetected(
             AddTextDetected(detected, Head(text_detected_counts), filename_fiber_counts),
             Tail(text_detected_counts), filename_fiber_counts)

\* UniqueCounts that keeps the duplicates
UniqueCounts_Keep(unique_counts, list) == unique_counts \o list

\* lines 423-428: duplicates removed, order kept
RECURSIVE UniqueCounts(_, _)
UniqueCounts(unique_counts, list) ==
    IF list = <<>> THEN unique_counts
    ELSE UniqueCounts(IF InSeq(Head(list), unique_counts) THEN unique_counts
                      ELSE Append(unique_counts, Head(list)),
                      Tail(list))

DefaultFiberCount == Chars("24F")

\* the cascade of lines 389-428 without the fallback and the default
ResolveFiberCounts_NoDefault(filename_fiber_counts, calculated_fiber_count, text_detected_counts) ==
    UniqueCounts(<<>>, AddAllTextDetected(
                           AddCalculated(filename_fiber_counts, calculated_fiber_count),
                           text_detected_counts, filename_fiber_counts))

\* lines 389-438
ResolveFiberCounts(filename_fiber_counts, calculated_fiber_count, text_detected_counts) ==
    LET d1 == filename_fiber_counts
        d2 == AddCalculated(d1, calculated_fiber_count)
        d3 == AddAllTextDetected(d2, text_detected_counts, filename_fiber_counts)
        d4 == UniqueCounts(<<>>, d3)
        d5 == IF d4 = <<>> THEN text_detected_counts ELSE d4
    IN IF d5 = <<>> THEN <<DefaultFiberCount>> ELSE d5

-----------------------------------------------------------------------------
(* Steps 1-5 of extract_grouped_data, src/main.py:354-438 and 976-978      *)

\* lines 356-366: the text of the pages that yield one, each followed by "\n"
RECURSIVE AllTextContent(_)
AllTextContent(pgs) ==
    IF pgs = <<>> THEN <<>>
    ELSE (IF ~Head(pgs).text_error /\ Head(pgs).text # <<>>
          THEN Head(pgs).text \o <<"\n">> ELSE <<>>) \o AllTextContent(Tail(pgs))

\* lines 376-384: tables.extend(page_tables) over the pages whose
\* extract_tables() does not raise
RECURSIVE AllTables(_)
AllTables(pgs) ==
    IF pgs = <<>> THEN <<>>
    ELSE (IF Head(pgs).tables_error THEN <<>> ELSE Head(pgs).tables)
         \o AllTables(Tail(pgs))

\* The lists extract_grouped_data can resolve for a document that opens
ResolvedLists(fname, pgs) ==
    { ResolveFiberCounts(extract_primary_fiber_count_from_filename(fname),
                         calculate_fiber_count_from_construction(AllTables(pgs)),
                         text_detected_counts) :
        text_detected_counts \in extract_fiber_counts_from_text(AllTextContent(pgs)) }

-----------------------------------------------------------------------------
(* The parameter registry (src/config_parameters.py).                      *)
(* A Python dict is a sequence of <<key, value>> pairs in insertion order; *)
(* None is the string "None".  The registry operators take the registry    *)
(* as a record reg of the four registry variables and return the record    *)
(* [res |-> the value returned, reg |-> the registry after the call].      *)

None == "None"

\* k in d
DictHas(d, k) == \E i \in 1..Len(d) : d[i][1] = k

\* d.get(k, default)
DictGet(d, k, default) ==
    IF DictHas(d, k) THEN d[CHOOSE i \in 1..Len(d) : d[i][1] = k][2]
    ELSE default

\* d[k] = v
DictPut(d, k, v) ==
    IF DictHas(d, k)
    THEN [i \in 1..Len(d) |-> IF d[i][1] = k THEN <<k, v>> ELSE d[i]]
    ELSE Append(d, <<k, v>>)

\* del d[k]
DictDel(d, k) == SelectSeq(d, LAMBDA item : item[1] # k)

\* for item in d.items(): if Test(item): return the key of item
FirstKey(d, Test(_)) ==
    IF \E i \in 1..Len(d) : Test(d[i])
    THEN d[CHOOSE i \in 1..Len(d) :
              Test(d[i]) /\ \A j \in 1..(i - 1) : ~Test(d[j])][1]
    ELSE None

\* any(Lower(x) in text for x in list)
AnyIn(list, text) == \E j \in 1..Len(list) : IsSubstr(Lower(list[j]), text)

PARAMETER_CATEGORIES ==
    << << "Cable Construction",
        <<
          Chars("fibre count"), Chars("fiber count"),
          Chars("number of fibres per tube"),
          Chars("number of fibers per tube"), Chars("fibres per tube"),
          Chars("fibers per tube"), Chars("number of loose tubes"),
          Chars("loose tubes"), Chars("central strength member"),
          Chars("number of fillers"), Chars("fillers"),
          Chars("moisture barrier"), Chars("core wrapping"),
          Chars("outer sheath"), Chars("inner sheath"),
          Chars("number of ripcords"), Chars("ripcords"),
          Chars("cable diameter"), Chars("cable weight"), Chars("armoring"),
          Chars("armouring"), Chars("loose tube od"),
          Chars("overall cable diameter"), Chars("tube count"),
          Chars("tube od"), Chars("peripheral strength member") >> >>,
       << "Cable Characteristics",
        <<
          Chars("tensile strength"), Chars("crush resistance"),
          Chars("impact strength"), Chars("torsion"),
          Chars("minimum bend radius"), Chars("bend radius"),
          Chars("water penetration test"),
          Chars("environmental performance"), Chars("installation"),
          Chars("operation"), Chars("storage"),
          Chars("temperature performance"), Chars("impact resistance") >> >>,
       << "Fiber Characteristics",
        <<
          Chars("fibre type"), Chars("fiber type"), Chars("attenuation"),
          Chars("chromatic dispersion"), Chars("pmd"),
          Chars("polarisation mode dispersion"),
          Chars("pmd (max. individual)"), Chars("pmd (link design value)"),
          Chars("cable cut off wavelength"), Chars("cut-off wavelength"),
          Chars("cut off wavelength"),
          <<"U+00CE">> \o <<"U+1E60">> \o Chars("cc"), Chars("mfd"),
          Chars("mode field diameter"), Chars("core cladding concentricity"),
          Chars("core-cladding concentricity error"),
          Chars("cladding diameter"), Chars("cladding non-circularity"),
          Chars("cladding non circularity"), Chars("coating diameter"),
          Chars("numerical aperture"), Chars("zero dispersion") >> >>,
       << "Physical Specifications",
        <<
          Chars("drum length") >> >>,
       << "Standards & Compliance",
        <<
          Chars("cpr class"), Chars("standards"), Chars("compliance") >> >> >>

StaticSectionKeywords ==
    << << "Cable Construction",
        <<
          Chars("cable"), Chars("construction"), Chars("fibre count"),
          Chars("fiber count"), Chars("outer sheath"),
          Chars("central strength member"), Chars("type of cable"),
          Chars("cable type"), Chars("structure"), Chars("design"),
          Chars("core"), Chars("tube"), Chars("elements"),
          Chars("fibres per tube"), Chars("fibers per tube"),
          Chars("number of fibres"), Chars("number of fibers"),
          Chars("loose tubes"), Chars("loose tube"),
          Chars("number of loose"), Chars("fillers"),
          Chars("moisture barrier"), Chars("core wrapping"),
          Chars("ripcords"), Chars("cable diameter"), Chars("cable weight"),
          Chars("armoring"), Chars("armouring") >> >>,
       << "Colour Coding",
        <<
          Chars("fibre colour"), Chars("fiber colour"), Chars("tube colour"),
          Chars("color coding"), Chars("identification"),
          Chars("colour code"), Chars("fiber identification") >> >>,
       << "Mechanical Characteristics",
        <<
          Chars("tensile strength"), Chars("crush resistance"),
          Chars("impact strength"), Chars("mechanical properties"),
          Chars("bend radius"), Chars("temperature"),
          Chars("operating temperature"), Chars("installation"),
          Chars("service") >> >>,
       << "Optical Characteristics",
        <<
          Chars("attenuation"), Chars("pmd"), Chars("chromatic dispersion"),
          Chars("mfd"), Chars("mode field diameter"),
          Chars("optical parameters"), Chars("bandwidth"),
          Chars("wavelength"), Chars("loss"), Chars("numerical aperture") >> >>,
       << "Physical Specifications",
        <<
          Chars("diameter"), Chars("weight"), Chars("dimensions"),
          Chars("size"), Chars("length"), Chars("overall diameter"),
          Chars("cable weight"), Chars("nominal"), Chars("physical") >> >>,
       << "Standards & Compliance",
        <<
          Chars("standards"), Chars("compliance"), Chars("specification"),
          Chars("iec"), Chars("itu"), Chars("ansi"), Chars("telcordia") >> >>,
       << "Packaging & Marking",
        <<
          Chars("packaging"), Chars("cable marking"), Chars("wooden drums"),
          Chars("packing"), Chars("printing details"), Chars("marking"),
          Chars("labels"), Chars("drums") >> >> >>

\* the word lists of the fallback net of identify_section_from_keywords
FallbackWords ==
    << << "Fiber Characteristics",
          << Chars("fiber"), Chars("fibre"), Chars("attenuation"),
             Chars("dispersion"), Chars("mode"), Chars("wavelength"),
             Chars("core"), Chars("cladding") >> >>,
       << "Cable Construction",
          << Chars("tube"), Chars("diameter"), Chars("weight"),
             Chars("sheath"), Chars("armor"), Chars("strength"),
             Chars("construction") >> >>,
       << "Cable Characteristics",
          << Chars("tensile"), Chars("crush"), Chars("bend"),
             Chars("temperature"), Chars("environmental"), Chars("torsion"),
             Chars("impact") >> >>,
       << "Colour Coding",
          << Chars("color"), Chars("colour"), Chars("coding") >> >>,
       << "Physical Specifications",
          << Chars("drum"), Chars("length"), Chars("packing"),
             Chars("marking") >> >> >>

\* the names and values the calls of SpecRegistry are made with
RegistryNames ==
    { Chars("Jacket Material"), Chars("Jacket"), Chars("Cable Diameter"), Chars(" ") }

RegistryValues == { <<>>, Chars("12 mm diameter") }

\* the row texts identify_section is called with: names, values, and the
\* joined cells of the rows ['Jacket', '12 mm diameter'] and ['Jacket', 'sheath']
RegistryTexts ==
    RegistryNames \cup RegistryValues
    \cup { Chars("Jacket 12 mm diameter"), Chars("Jacket sheath") }

-----------------------------------------------------------------------------
(* Helpers of the pipeline operators                                       *)

\* " ".join(cells)
Join(cells) ==
    Concat([i \in 1..Len(cells) |->
               IF i = 1 THEN cells[1] ELSE <<" ">> \o cells[i]])

\* for x in list: st = Body(st, x)
RECURSIVE Fold(_, _, _)
Fold(Body(_, _), st, list) ==
    IF list = <<>> THEN st
    ELSE Bind(Body(st, Head(list)), LAMBDA next : Fold(Body, next, Tail(list)))

\* any(w in text for w in words), the words given as strings
HasAny(words, text) == \E w \in words : IsSubstr(Chars(w), text)

\* str.title(): a letter is upper case after a non-letter, lower case after
\* a letter
Title(s) ==
    [i \in 1..Len(s) |->
        IF i > 1 /\ LowerChar(s[i - 1]) # UpperChar(s[i - 1])
        THEN LowerChar(s[i]) ELSE UpperChar(s[i])]

normalize_parameter_name(name) ==
    Bind(Title(Strip(name)), LAMBDA normalized :
        DictGet(<< <<Chars("Fibre Core"), Chars("Fiber Core")>>,
                   <<Chars("Fibre Count"), Chars("Fiber Count")>>,
                   <<Chars("Od"), Chars("OD")>>, <<Chars("I.D"), Chars("ID")>>,
                   <<Chars("O.D"), Chars("OD")>>, <<Chars("I.D."), Chars("ID")>>,
                   <<Chars("O.D."), Chars("OD")>> >>,
                normalized, normalized))

-----------------------------------------------------------------------------
(* The documents of SpecPipeline.  A page is what the extraction primitive *)
(* yields for it: its text, its tables, whether extract_text() raises, and *)
(* the matches the fixed regular expressions of config_parameters.py have  *)
(* in its text: matches for TEXT_PARAMETER_PATTERNS as (name, final        *)
(* value), enhanced for ENHANCED_TEXT_PATTERNS in the order lines 487-581  *)
(* search them.                                                            *)

MaxPages == 2

NoText == [text |-> <<>>, matches |-> <<>>, enhanced |-> <<>>]

CableDataText ==
    [text |-> Chars("CABLE DATA\nCable Diameter 9.0 mm\nImpact Strength 10 N.m"),
     matches |-> << [name |-> Chars("Cable Diameter"),
                     value |-> clean_parameter_value(Chars("9.0 mm"))] >>,
     enhanced |-> << [kind |-> "enhanced", name |-> Chars("Impact Resistance"),
                      value |-> clean_parameter_value(Chars("10 N.m"))],
                     [kind |-> "enhanced", name |-> Chars("Impact Strength"),
                      value |-> clean_parameter_value(Chars("10 N.m"))] >>]

InstallationText ==
    [text |-> Chars("Installation: 2700 N Operation: 1300 N\nJacket Material: HDPE"),
     matches |-> <<>>,
     enhanced |-> << [kind |-> "tensile", name |-> Chars("Max. Tensile Strength"),
                      value |-> Chars("Installation: 2700 N Operation: 1300 N")] >>]

PageTexts == { NoText, CableDataText, InstallationText }

HeaderTable ==
    << <<Chars("Fibre Count"), Chars("24F"), Chars("96F")>>,
       <<Chars("Cable Diameter"), Chars("8.5 mm"), Chars("10.2 mm")>> >>

WeightTable ==
    << <<Chars("Cable Weight"), Chars("100 kg/km"), Chars("150 kg/km")>>,
       <<Chars("Impact Strength"), Chars("25 N.m "), NoneCell>> >>

JacketTable ==
    << <<Chars("Number of fibres per tube"), Chars("12"), Chars("24")>>,
       <<Chars("Jacket Material"), Chars("PE")>> >>

VariantTable ==
    << <<Chars("Cable Variant"), Chars("24f"), Chars("96f")>>,
       <<Chars("Max. Tensile Strength"), Chars("3000 N"), Chars("3500 N")>> >>

CrushTable ==
    << <<Chars("Crush Resistance"), Chars("1000 N"), Chars("2000 N")>>,
       <<Chars("No. of tubes"), Chars("2"), Chars("8")>> >>

\* a table that repeats its header row after a row of another section
RepeatedHeaderTable ==
    << <<Chars("Fibre Count"), Chars("24F"), Chars("96F")>>,
       <<Chars("Crush Resistance"), Chars("1000 N"), Chars("2000 N")>>,
       <<Chars("Fibre Count"), Chars("24F"), Chars("96F")>> >>

JacketVariantTable ==
    << <<Chars("Cable Variant"), Chars("24f"), Chars("96f")>>,
       <<Chars("Jacket Material"), Chars("PE"), Chars("HDPE")>> >>

JacketDetailTable ==
    << <<Chars("Jacket Material"), Chars("PE 1.8 mm nominal"),
         Chars("HDPE 2.0 mm nominal")>>,
       <<Chars("Ripcord"), Chars("Yes"), Chars("Yes")>> >>

\* a page whose text is read
Page(t, tb) ==
    [text |-> t.text, matches |-> t.matches, enhanced |-> t.enhanced,
     tables |-> tb, text_error |-> FALSE, tables_error |-> FALSE]

\* the pages whose text and tables are read, one whose extract_text()
\* raises and one whose extract_tables() raises
PageInputs ==
    { Page(NoText, <<HeaderTable>>), Page(NoText, <<WeightTable>>),
      Page(NoText, <<HeaderTable, JacketTable>>), Page(NoText, <<CrushTable>>),
      Page(NoText, <<JacketVariantTable, JacketDetailTable>>),
      Page(NoText, <<RepeatedHeaderTable>>),
      Page(CableDataText, <<>>), Page(CableDataText, <<WeightTable>>),
      Page(InstallationText, <<>>), Page(InstallationText, <<VariantTable>>),
      [text |-> <<>>, matches |-> <<>>, enhanced |-> <<>>,
       tables |-> <<WeightTable>>, text_error |-> TRUE, tables_error |-> FALSE],
      [Page(CableDataText, <<>>) EXCEPT !.tables_error = TRUE] }

ColourText ==
    [text |-> Chars("Fibre Count 1 2 3 4 5 6 7 8 9 10 11 12\nFibre Colour Bl Or Gr Br Sl Wh Rd Bk Yl Vi Pk Aq"),
     matches |-> <<>>, enhanced |-> <<>>]

\* a page with a heading and a line under it that no pattern matches
OverviewText ==
    [text |-> Chars("OVERVIEW\nLoose tube cable"), matches |-> <<>>, enhanced |-> <<>>]

\* a page of blanks
BlankText == [text |-> Chars("  \n "), matches |-> <<>>, enhanced |-> <<>>]

PipelineFilenames == { Chars("Cable_24F96F.pdf"), Chars("datasheet.pdf") }

-----------------------------------------------------------------------------
(* Lookups in the static tables                                            *)

\* what the static tables say about a lower-case string: the category that
\* lists it (add_new_parameter), the category one of whose names contains it
\* or is contained in it (get_parameter_category), the sections one of whose
\* keywords it contains and the section of the fallback net
\* (identify_section_from_keywords)
StaticLookup(text_lower) ==
    Bind3(PARAMETER_CATEGORIES, StaticSectionKeywords, FallbackWords,
          LAMBDA categories, keywords, fallback :
        [listed |->
            FirstKey(categories, LAMBDA item :
                \E j \in 1..Len(item[2]) : Lower(item[2][j]) = text_lower),
         category |->
            FirstKey(categories, LAMBDA item :
                \E j \in 1..Len(item[2]) :
                    \/ IsSubstr(Lower(item[2][j]), text_lower)
                    \/ IsSubstr(text_lower, Lower(item[2][j]))),
         keyword_sections |->
            { keywords[i][1] :
                i \in { k \in 1..Len(keywords) : AnyIn(keywords[k][2], text_lower) } },
         net |->
            FirstKey(fallback, LAMBDA item :
                \E j \in 1..Len(item[2]) : IsSubstr(item[2][j], text_lower))])

\* the lower-case strings the specifications look up, whose StaticLookup is
\* computed once
KnownTexts ==
    { Chars(text_lower) : text_lower \in {
      "", "12 mm diameter", "attenuation", "cable diameter",
      "cable diameter ", "cable diameter 10.2 mm",
      "cable diameter 12 mm diameter", "cable diameter 8.5 mm",
      "cable diameter 8.5 mm 10.2 mm", "cable diameter 9.0 mm",
      "cable variant", "cable variant 24f", "cable variant 24f 96f",
      "cable variant 96f", "cable weight", "cable weight 100 kg/km",
      "cable weight 100 kg/km 150 kg/km", "cable weight 150 kg/km",
      "fiber count", "fiber count 24f", "fiber count 24f 96f",
      "fiber count 96f", "fibre count 24f 96f", "impact resistance",
      "impact strength", "impact strength 25 n.m", "impact strength 25 n.m ",
      "jacket", "jacket ", "jacket 12 mm diameter", "jacket material",
      "jacket material ", "jacket material 12 mm diameter",
      "jacket material h", "jacket material pe", "jacket sheath", "max. tensile strength",
      "max. tensile strength 3000 n", "max. tensile strength 3000 n 3500 n",
      "max. tensile strength 3500 n", "mode field diameter",
      "number of fibres per tube", "number of fibres per tube 12",
      "number of fibres per tube 12 24", "number of fibres per tube 24",
      "rip gauge", "sheath hardness" } }

StaticLookupTable == [text_lower \in KnownTexts |-> StaticLookup(text_lower)]

\* table[key] where the table has the key, else the value computed for it
Memo(table, key, computed) ==
    IF key \in DOMAIN table THEN table[key] ELSE computed

Static(text_lower) ==
    Memo(StaticLookupTable, text_lower, StaticLookup(text_lower))

generic_words ==
    { Chars("of"), Chars("the"), Chars("and"), Chars("or"), Chars("in"),
      Chars("at"), Chars("to"), Chars("for"), Chars("with"), Chars("number"),
      Chars("type"), Chars("mode") }

\* SECTION_KEYWORDS at import: nothing appended to any list
NothingAppended ==
    [i \in 1..Len(StaticSectionKeywords) |-> <<StaticSectionKeywords[i][1], <<>>>>]

\* the overlay of a registry that has learned nothing
EmptyOverlay ==
    [parameters |-> <<>>, patterns |-> <<>>, section_keywords |-> <<>>,
     descriptions |-> <<>>]

\* a write that succeeds whatever the state of the disk
save_dynamic_parameters_Always(reg) == [reg EXCEPT !.config_file = reg.dynamic_params]

\* json.dump of the overlay to dynamic_parameters.json; the exception of a
\* failed write is caught and the file keeps its content
save_dynamic_parameters(reg) ==
    IF reg.disk = "ok" THEN [reg EXCEPT !.config_file = reg.dynamic_params]
    ELSE reg

\* the regular expression generated for a name: the branch taken and, where
\* the expression embeds it, the escaped lower-case name
generate_pattern_for_parameter(parameter_name) ==
    LET param_lower == Lower(parameter_name)
        Has(w) == IsSubstr(Chars(w), param_lower)
    IN IF Has("attenuation") THEN <<"attenuation">>
       ELSE IF Has("mode field diameter") \/ Has("mfd") THEN <<"mfd">>
       ELSE IF Has("chromatic dispersion") THEN <<"chromatic dispersion">>
       ELSE IF Has("wavelength") THEN <<"wavelength", param_lower>>
       ELSE IF Has("diameter") \/ Has("weight") \/ Has("length")
               \/ Has("radius") THEN <<"measurement", param_lower>>
       ELSE IF Has("strength") \/ Has("resistance") \/ Has("force")
            THEN <<"performance", param_lower>>
       ELSE <<"general", param_lower>>

\* get_section_keywords that leaves the learned keywords out
get_section_keywords_Static(reg) == [res |-> NothingAppended, reg |-> reg]

\* SECTION_KEYWORDS.copy() is shallow: extending a list of the copy extends
\* the list of SECTION_KEYWORDS itself.  reg.SECTION_KEYWORDS holds, for each
\* section of the table, what has been appended to its list since import;
\* res holds, per section of all_keywords, the keywords that are not static
get_section_keywords(reg) ==
    Bind2(reg.dynamic_params.section_keywords, reg.SECTION_KEYWORDS,
          LAMBDA dyn, static :
        Bind([i \in 1..Len(static) |->
                 <<static[i][1],
                   static[i][2] \o DictGet(dyn, static[i][1], <<>>)>>],
             LAMBDA extended :
                [res |-> extended
                         \o SelectSeq(dyn, LAMBDA item : ~DictHas(static, item[1])),
                 reg |-> [reg EXCEPT !.SECTION_KEYWORDS = extended]]))

identify_section_from_keywords(reg, text) ==
    Bind3(get_section_keywords(reg), Static(Lower(text)), Lower(text),
          LAMBDA all_keywords, known, text_lower :
        Bind(FirstKey(all_keywords.res, LAMBDA item :
                 \/ item[1] \in known.keyword_sections
                 \/ AnyIn(item[2], text_lower)),
             LAMBDA section :
                [res |-> IF section # None THEN section
                         ELSE IF known.net # None THEN known.net
                         ELSE "General Information",
                 reg |-> all_keywords.reg]))

add_new_section_keyword(reg, section, keyword) ==
    IF Lower(keyword) \in generic_words \/ Len(keyword) < 3 THEN reg
    ELSE Bind(DictGet(reg.dynamic_params.section_keywords, section, <<>>),
              LAMBDA keywords :
            [reg EXCEPT !.dynamic_params.section_keywords =
                DictPut(@, section,
                        IF \E j \in 1..Len(keywords) :
                               Lower(keywords[j]) = Lower(keyword)
                        THEN keywords ELSE Append(keywords, keyword))])

\* parameter_name.split(): the words of the name
Split(s) ==
    LET starts == {i \in 1..Len(s) :
                     s[i] \notin Whitespace
                     /\ (i = 1 \/ s[i - 1] \in Whitespace)}
        WordAt(i) ==
            SubSeq(s, i, SkipClass(s, i, {s[k] : k \in 1..Len(s)} \ Whitespace) - 1)
        Nth(n) == CHOOSE i \in starts : Cardinality({j \in starts : j < i}) = n - 1
    IN [n \in 1..Cardinality(starts) |-> WordAt(Nth(n))]

\* a static table that lists no name
StaticCategoryOf_None(parameter_name) == None

\* lines 189-193: the first static category that lists the name, compared
\* in lower case; None when no category lists it
StaticCategoryOf(parameter_name) == Static(Lower(parameter_name)).listed

\* res is "IndexError" when parameter_name.split()[0] raises: the name and
\* its pattern are then in memory and the overlay is not written
add_new_parameter(reg, parameter_name, section, pattern, description) ==
    Bind3(StaticCategoryOf(parameter_name),
          DictGet(reg.dynamic_params.parameters, section, <<>>),
          [reg EXCEPT
              !.dynamic_params.parameters =
                  DictPut(@, section,
                          Append(DictGet(@, section, <<>>), parameter_name)),
              !.dynamic_params.patterns =
                  Append(@, << IF pattern = None
                               THEN generate_pattern_for_parameter(parameter_name)
                               ELSE pattern,
                               parameter_name >>)],
          LAMBDA category, listed, appended :
        IF category # None THEN [res |-> category, reg |-> reg]
        ELSE IF \E j \in 1..Len(listed) : Lower(listed[j]) = Lower(parameter_name)
             THEN [res |-> section, reg |-> reg]
        ELSE IF Split(parameter_name) = <<>>
             THEN [res |-> "IndexError", reg |-> appended]
        ELSE [res |-> section,
              reg |-> save_dynamic_parameters(
                          Bind(add_new_section_keyword(appended, section,
                                                       Split(parameter_name)[1]),
                               LAMBDA keyworded :
                                  IF description = None THEN keyworded
                                  ELSE [keyworded EXCEPT
                                          !.dynamic_params.descriptions =
                                              DictPut(@, parameter_name,
                                                      description)]))])

get_parameter_category(reg, parameter_name) ==
    Bind3(Static(Lower(parameter_name)).category,
          FirstKey(reg.dynamic_params.parameters, LAMBDA item :
              \E j \in 1..Len(item[2]) :
                  \/ IsSubstr(Lower(item[2][j]), Lower(parameter_name))
                  \/ IsSubstr(Lower(parameter_name), Lower(item[2][j]))),
          identify_section_from_keywords(reg, parameter_name),
          LAMBDA category, section, by_keywords :
        IF category # None THEN [res |-> category, reg |-> reg]
        ELSE IF section # None THEN [res |-> section, reg |-> reg]
        ELSE by_keywords)

\* add_new_parameter under the section of suggested, a result of
\* identify_section_from_keywords or a section given by the caller
AddUnder(suggested, parameter_name, pattern, description) ==
    add_new_parameter(suggested.reg, parameter_name, suggested.res,
                      pattern, description)

add_parameter_if_new(reg, parameter_name, suggested_section, pattern, description) ==
    AddUnder(IF suggested_section = None
             THEN identify_section_from_keywords(reg, parameter_name)
             ELSE [res |-> suggested_section, reg |-> reg],
             parameter_name, pattern, description)

\* the section of the name with its value, the name alone when the value is
\* None or empty: better_category of ensure_parameter_exists
BetterCategory(by_name, parameter_name, parameter_value) ==
    IF parameter_value = <<>> THEN by_name
    ELSE identify_section_from_keywords(by_name.reg,
             parameter_name \o <<" ">> \o parameter_value)

\* add_parameter_if_new(parameter_name, better_category)
AddBetter(better_category, parameter_name) ==
    add_parameter_if_new(better_category.reg, parameter_name,
                         better_category.res, None, None)

\* ensure_parameter_exists from the category get_parameter_category returned
EnsureFrom(existing_category, parameter_name, parameter_value) ==
    IF existing_category.res = "General Information"
    THEN AddBetter(BetterCategory(
                       identify_section_from_keywords(existing_category.reg,
                                                      parameter_name),
                       parameter_name, parameter_value),
                   parameter_name)
    ELSE existing_category

\* parameter_value is <<>> for None and for the empty string
ensure_parameter_exists(reg, parameter_name, parameter_value) ==
    EnsureFrom(get_parameter_category(reg, parameter_name),
               parameter_name, parameter_value)

-----------------------------------------------------------------------------
(* extract_grouped_data after the variants are resolved (src/main.py       *)
(* 440-974).  The operators take and return the record st of what the      *)
(* function and the process hold while a document is processed:            *)
(* fibre_data, current_section, fiber_column_mappings,                     *)
(* fiber_specific_values, COLUMN_MAPPINGS, detected_fiber_counts and the   *)
(* registry reg.  fibre_data is a function of the variant labels; its      *)
(* Technical_Specifications are dicts of dicts.                            *)


\* if section not in specs: specs[section] = {}
\* and then, when write holds, specs[section][param] = val
Store(fibre_data_, fc, section, param, val, write) ==
    [fibre_data_ EXCEPT ![fc].Technical_Specifications =
        DictPut(@, section,
                IF write THEN DictPut(DictGet(@, section, <<>>), param, val)
                ELSE DictGet(@, section, <<>>))]

\* extract_parameters_from_text, given the matches of the patterns in the
\* page text as (dynamic_param_name, final_value) in the order found
extract_parameters_from_text(reg, matches) ==
    Fold(LAMBDA parameters, m :
            Bind(ensure_parameter_exists(parameters.reg, m.name, m.value),
                 LAMBDA section :
                    [res |-> DictPut(parameters.res, section.res,
                                     DictPut(DictGet(parameters.res, section.res, <<>>),
                                             m.name, m.value)),
                     reg |-> section.reg]),
         [res |-> <<>>, reg |-> reg], matches)

\* lines 476-485: a text parameter fills a slot only if the name is absent.
\* text_parameters is what extract_parameters_from_text returned, with the
\* registry it left
MergeTextParameters(st, text_parameters) ==
    Fold(LAMBDA acc, fc :
            Fold(LAMBDA acc2, item :
                    Fold(LAMBDA acc3, p :
                            [acc3 EXCEPT !.fibre_data =
                                Store(@, fc, item[1], p[1], p[2],
                                      ~DictHas(DictGet(acc3.fibre_data[fc].Technical_Specifications,
                                                       item[1], <<>>), p[1]))],
                         [acc2 EXCEPT !.fibre_data =
                             Store(@, fc, item[1], <<>>, <<>>, FALSE)],
                         item[2]),
                 acc, text_parameters.res),
         [st EXCEPT !.reg = text_parameters.reg], st.detected_fiber_counts)

\* the name lines 487-581 ask categorize_parameter about
Categorized(hit) ==
    IF hit.kind = "attenuation" THEN Chars("Attenuation")
    ELSE IF hit.kind = "mfd" THEN Chars("Mode Field Diameter")
    ELSE hit.name

\* lines 487-581: one match of an enhanced pattern.  hit.kind is "tensile"
\* (written unconditionally), "enhanced" (written if the slot is absent or
\* blank), "attenuation" or "mfd" (written if the slot is absent)
ApplyEnhanced(st, hit) ==
    [Fold(LAMBDA acc, fc :
             Bind2(get_parameter_category(acc.reg, Categorized(hit)),
                   acc.fibre_data[fc].Technical_Specifications,
                   LAMBDA param_section, specs :
                [acc EXCEPT
                   !.reg = param_section.reg,
                   !.fibre_data =
                       Store(@, fc, param_section.res, hit.name, hit.value,
                             \/ hit.kind = "tensile"
                             \/ ~DictHas(DictGet(specs, param_section.res, <<>>),
                                         hit.name)
                             \/ /\ hit.kind = "enhanced"
                                /\ DictGet(DictGet(specs, param_section.res, <<>>),
                                           hit.name, <<>>) = <<>>)]),
          st, st.detected_fiber_counts)
     EXCEPT !.reg =
        add_parameter_if_new(@, hit.name,
                             get_parameter_category(@, Categorized(hit)).res,
                             None, None).reg]

\* str.split('\n')
RECURSIVE SplitLines(_)
SplitLines(s) ==
    LET n == SkipClass(s, 1, {s[k] : k \in 1..Len(s)} \ {"\n"})
    IN IF n > Len(s) THEN <<s>>
       ELSE <<SubSeq(s, 1, n - 1)>> \o SplitLines(SubSeq(s, n + 1, Len(s)))

\* extract_text_content on the text of a page: the lines under each heading,
\* joined.  The buffer is emptied only when it is saved under a heading, so
\* the lines before the first heading go under the first heading
extract_text_content(full_text) ==
    LET lines == SplitLines(full_text)
        stripped == SelectSeq([i \in 1..Len(lines) |-> Strip(lines[i])],
                              LAMBDA line : line # <<>>)
        IsUpper(line) ==
            /\ \E i \in 1..Len(line) : line[i] \in UpperAZ
            /\ \A i \in 1..Len(line) : line[i] = UpperChar(line[i])
        Heading(line) ==
            \/ IsUpper(line) /\ Len(line) > 3
            \/ HasAny({"specification", "description", "technical", "parameters",
                       "characteristics"}, Lower(line))
        Saved(acc) ==
            IF acc.current_heading # <<>> /\ acc.content_buffer # <<>>
            THEN [acc EXCEPT !.text_content =
                                 DictPut(@, acc.current_heading,
                                         Join(acc.content_buffer)),
                             !.content_buffer = <<>>]
            ELSE acc
        read ==
            Fold(LAMBDA acc, line :
                    IF Heading(line)
                    THEN [Saved(acc) EXCEPT !.current_heading = line]
                    ELSE [acc EXCEPT !.content_buffer = Append(@, line)],
                 [text_content |-> <<>>, current_heading |-> <<>>,
                  content_buffer |-> <<>>],
                 stripped)
    IN IF full_text = <<>> THEN <<>> ELSE Saved(read).text_content

\* the units the generated patterns list, in the order of their alternation
PatternUnits(kind) ==
    IF kind = "measurement"
    THEN <<Chars("mm"), Chars("kg/km"), Chars("km"), Chars("m"), Chars("nm")>>
    ELSE <<Chars("n"), Chars("kn"), Chars("n/mm"), Chars("n.m"), Chars("kg")>>

\* the escaped lower-case name with '\ ' replaced by '\s+', tried at text[i..]
\* under re.IGNORECASE: the index after the match, 0 when there is none.
\* The other alternatives of a general pattern differ from this one only
\* for a name that holds fibre, fiber, colour or diameter
RECURSIVE MatchNameAt(_, _, _)
MatchNameAt(name_lower, text, i) ==
    IF name_lower = <<>> THEN i
    ELSE IF i > Len(text) THEN 0
    ELSE IF Head(name_lower) = " "
         THEN IF text[i] \notin Whitespace THEN 0
              ELSE MatchNameAt(Tail(name_lower), text,
                       IF Len(name_lower) > 1 /\ name_lower[2] = " " THEN i + 1
                       ELSE SkipClass(text, i, Whitespace))
    ELSE IF LowerChar(text[i]) = Head(name_lower)
         THEN MatchNameAt(Tail(name_lower), text, i + 1)
    ELSE 0

\* no match of a generated pattern
NoGroup == [ok |-> FALSE, from |-> 0, to |-> 0]

\* a generated pattern tried at text[i..]: [ok, from, to] with text[from..to]
\* the group and to + 1 the end of the match.
\*   measurement, performance:  (?:name)[:\s]*([\d.\s]+\s*(?:units))
\*   general:  (?:name)[:\s]*([^,\n]+?)(?=\s*(?:[A-Z][a-z]|$|\n))
\* [:\s]* is greedy and gives characters back; the general group is lazy
MatchGeneratedAt(pattern, text, i) ==
    Bind(MatchNameAt(pattern[2], text, i), LAMBDA q :
        IF q = 0 THEN NoGroup
        ELSE Bind(SkipClass(text, q, Whitespace \cup {":"}), LAMBDA j :
            LET Letter(k) == k <= Len(text) /\ LowerChar(text[k]) # UpperChar(text[k])
                UnitAt(e) ==
                    LET units == PatternUnits(pattern[1])
                        hits == {u \in 1..Len(units) : StartsWithAtCI(text, e, units[u])}
                    IN IF hits = {} THEN 0
                       ELSE Len(units[CHOOSE u \in hits : \A v \in hits : u <= v])
                Ahead(k) ==
                    \E w \in k..(Len(text) + 1) :
                        /\ \A x \in k..(w - 1) : text[x] \in Whitespace
                        /\ \/ w = Len(text) + 1
                           \/ text[w] = "\n"
                           \/ Letter(w) /\ Letter(w + 1)
                Group(b, k) ==
                    /\ \A x \in b..k : text[x] \notin {",", "\n"}
                    /\ Ahead(k + 1)
                Starts(b) == b <= Len(text) /\ \E k \in b..Len(text) : Group(b, k)
            IN IF pattern[1] = "general"
               THEN IF \A b \in q..j : ~Starts(b) THEN NoGroup
                    ELSE Bind(CHOOSE b \in q..j :
                                  Starts(b) /\ \A c \in (b + 1)..j : ~Starts(c),
                              LAMBDA from :
                                 [ok |-> TRUE, from |-> from,
                                  to |-> CHOOSE k \in from..Len(text) :
                                            /\ Group(from, k)
                                            /\ \A x \in from..(k - 1) :
                                                   ~Group(from, x)])
               ELSE Bind(IF j <= Len(text) /\ text[j] \in Digits \cup {"."} THEN j
                         ELSE IF j > q /\ text[j - 1] \in Whitespace THEN j - 1
                         ELSE 0,
                         LAMBDA s :
                            IF s = 0 THEN NoGroup
                            ELSE Bind(SkipClass(text, s,
                                                Digits \cup {"."} \cup Whitespace),
                                      LAMBDA e :
                                         IF UnitAt(e) = 0 THEN NoGroup
                                         ELSE [ok |-> TRUE, from |-> s,
                                               to |-> e + UnitAt(e) - 1]))))

\* re.finditer of a generated pattern: the groups of its matches, in order
RECURSIVE FindGenerated(_, _, _)
FindGenerated(pattern, text, i) ==
    Bind({ j \in i..Len(text) : MatchGeneratedAt(pattern, text, j).ok },
         LAMBDA starts :
            IF starts = {} THEN <<>>
            ELSE Bind(MatchGeneratedAt(pattern, text,
                          CHOOSE j \in starts : \A h \in starts : j <= h),
                      LAMBDA m : <<SubSeq(text, m.from, m.to)>>
                                 \o FindGenerated(pattern, text, m.to + 1)))

\* lines 245-287 for the patterns of the overlay: (dynamic_param_name,
\* final_value) of every match.  Only the patterns that embed the name are
\* matched here; those of the attenuation, mode field diameter, chromatic
\* dispersion and wavelength names need a wavelength 'NNN nm' in the text
DynamicMatches(reg, text) ==
    Bind(reg.dynamic_params.patterns, LAMBDA patterns :
        Concat([p \in 1..Len(patterns) |->
            IF patterns[p][1][1] \in {"measurement", "performance", "general"}
            THEN Bind(FindGenerated(patterns[p][1], text, 1), LAMBDA groups :
                    [g \in 1..Len(groups) |->
                        [name |-> patterns[p][2],
                         value |-> clean_parameter_value(Strip(groups[g]))]])
            ELSE <<>>]))

-----------------------------------------------------------------------------
(* Colour coding of the page text, src/main.py:296-344 and 468-473         *)

COLOR_CODES ==
    << <<Chars("bl"), Chars("Blue")>>, <<Chars("or"), Chars("Orange")>>,
       <<Chars("gr"), Chars("Green")>>, <<Chars("br"), Chars("Brown")>>,
       <<Chars("wh"), Chars("White")>>, <<Chars("gy"), Chars("Gray")>>,
       <<Chars("rd"), Chars("Red")>>, <<Chars("bk"), Chars("Black")>>,
       <<Chars("ye"), Chars("Yellow")>>, <<Chars("vi"), Chars("Violet")>>,
       <<Chars("pk"), Chars("Pink")>>, <<Chars("cy"), Chars("Cyan")>>,
       <<Chars("yl"), Chars("Yellow")>>, <<Chars("sl"), Chars("Silver")>>,
       <<Chars("nt"), Chars("Natural")>>, <<Chars("aq"), Chars("Aqua")>>,
       <<Chars("fi"), Chars("Fiber")>>, <<Chars("ca"), Chars("Clear")>>,
       <<Chars("na"), Chars("Natural")>>,
       <<Chars("blue"), Chars("Blue")>>, <<Chars("orange"), Chars("Orange")>>,
       <<Chars("green"), Chars("Green")>>, <<Chars("brown"), Chars("Brown")>>,
       <<Chars("white"), Chars("White")>>, <<Chars("gray"), Chars("Gray")>>,
       <<Chars("red"), Chars("Red")>>, <<Chars("black"), Chars("Black")>>,
       <<Chars("yellow"), Chars("Yellow")>>, <<Chars("violet"), Chars("Violet")>>,
       <<Chars("pink"), Chars("Pink")>>, <<Chars("cyan"), Chars("Cyan")>>,
       <<Chars("silver"), Chars("Silver")>>, <<Chars("natural"), Chars("Natural")>>,
       <<Chars("aqua"), Chars("Aqua")>>, <<Chars("clear"), Chars("Clear")>> >>

\* [A-Za-z]
AsciiLetters == UpperAZ \cup { LowerChar(c) : c \in UpperAZ }

\* Fibre\s+<word>\s+ at text[i..] under re.IGNORECASE: the index after it,
\* 0 when there is no match
MatchFibreWordAt(word, text, i) ==
    IF ~StartsWithAtCI(text, i, Chars("fibre")) THEN 0
    ELSE Bind(SkipClass(text, i + 5, Whitespace), LAMBDA a :
            IF a = i + 5 \/ ~StartsWithAtCI(text, a, word) THEN 0
            ELSE Bind(SkipClass(text, a + Len(word), Whitespace), LAMBDA b :
                    IF b = a + Len(word) THEN 0 ELSE b))

\* r'Fibre\s+Count\s+((?:\d+\s*)+)' at text[i..]: the group and the index
\* after the match
MatchCountSeqAt(text, i) ==
    Bind(MatchFibreWordAt(Chars("count"), text, i), LAMBDA q :
        IF q = 0 \/ q > Len(text) THEN NoMatch
        ELSE IF ~IsDigit(text[q]) THEN NoMatch
        ELSE Bind(SkipClass(text, q, Digits \cup Whitespace), LAMBDA end :
                [end |-> end, grp |-> SubSeq(text, q, end - 1)]))

\* (?:[A-Za-z]{2}\*?\s*)+ from text[i..], as far as it goes: the two-letter
\* codes of re.findall(r'[A-Za-z]{2}\*?', color_seq) with the asterisk of
\* line 331 taken off, and the index after the last repetition
RECURSIVE ColourCodesFrom(_, _)
ColourCodesFrom(text, i) ==
    IF i + 1 <= Len(text) /\ text[i] \in AsciiLetters /\ text[i + 1] \in AsciiLetters
    THEN Bind(IF i + 2 <= Len(text) /\ text[i + 2] = "*" THEN i + 3 ELSE i + 2,
              LAMBDA a :
                Bind(ColourCodesFrom(text, SkipClass(text, a, Whitespace)),
                     LAMBDA rest :
                        [codes |-> <<SubSeq(text, i, i + 1)>> \o rest.codes,
                         end |-> rest.end]))
    ELSE [codes |-> <<>>, end |-> i]

\* r'Fibre\s+Colour\s+((?:[A-Za-z]{2}\*?\s*)+)' at text[i..]
MatchColourSeqAt(text, i) ==
    Bind(MatchFibreWordAt(Chars("colour"), text, i), LAMBDA q :
        IF q = 0 THEN [codes |-> <<>>, end |-> 0]
        ELSE Bind(ColourCodesFrom(text, q), LAMBDA m :
                IF m.codes = <<>> THEN [codes |-> <<>>, end |-> 0] ELSE m))

\* re.findall(fiber_count_pattern, text, re.IGNORECASE), scanning from i
RECURSIVE FindCountSeqs(_, _)
FindCountSeqs(text, i) ==
    Bind({ j \in i..Len(text) : MatchCountSeqAt(text, j).end > 0 }, LAMBDA starts :
        IF starts = {} THEN <<>>
        ELSE Bind(MatchCountSeqAt(text, CHOOSE j \in starts : \A h \in starts : j <= h),
                  LAMBDA m : <<m.grp>> \o FindCountSeqs(text, m.end)))

\* re.findall(fiber_color_pattern, text, re.IGNORECASE), scanning from i:
\* the codes of each match
RECURSIVE FindColourSeqs(_, _)
FindColourSeqs(text, i) ==
    Bind({ j \in i..Len(text) : MatchColourSeqAt(text, j).end > 0 }, LAMBDA starts :
        IF starts = {} THEN <<>>
        ELSE Bind(MatchColourSeqAt(text, CHOOSE j \in starts : \A h \in starts : j <= h),
                  LAMBDA m : <<m.codes>> \o FindColourSeqs(text, m.end)))

\* re.findall(r'\d+', count_seq)
DigitRuns(s) ==
    LET starts == { j \in 1..Len(s) : IsDigit(s[j]) /\ (j = 1 \/ ~IsDigit(s[j - 1])) }
        Nth(n) == CHOOSE j \in starts : Cardinality({ h \in starts : h < j }) = n - 1
    IN [n \in 1..Cardinality(starts) |->
           SubSeq(s, Nth(n), SkipClass(s, Nth(n), Digits) - 1)]

\* a pair is kept whatever its fibre number
WithinLimit_Always(fiber_num, max_fiber_count) == TRUE

\* line 341, for the max_fiber_count line 472 passes, which is never None
WithinLimit(fiber_num, max_fiber_count) == ParseInt(fiber_num) <= max_fiber_count

\* lines 333-338: the colour name of a code
ColourName(color_code) ==
    Bind(Lower(color_code), LAMBDA clean_color :
        DictGet(COLOR_CODES, clean_color, Title(clean_color)))

\* zip(a, b)
Zip(a, b) ==
    [k \in 1..(IF Len(a) <= Len(b) THEN Len(a) ELSE Len(b)) |-> <<a[k], b[k]>>]

\* extract_tabular_color_coding (lines 309-344): {"Fibre Colour": mapping}
\* when the mapping has an entry, {} when it has none
extract_tabular_color_coding(text, max_fiber_count) ==
    Bind2(FindCountSeqs(text, 1), FindColourSeqs(text, 1),
          LAMBDA count_matches, color_matches :
        Bind(Fold(LAMBDA color_mapping, pair :
                     Fold(LAMBDA mapping, fc :
                             IF WithinLimit(fc[1], max_fiber_count)
                             THEN DictPut(mapping, fc[1], ColourName(fc[2]))
                             ELSE mapping,
                          color_mapping, Zip(DigitRuns(pair[1]), pair[2])),
                  <<>>, Zip(count_matches, color_matches)),
             LAMBDA color_mapping :
                IF color_mapping = <<>> THEN <<>>
                ELSE << <<Chars("Fibre Colour"), color_mapping>> >>))

\* extract_color_coding_from_text (lines 296-307): the tabular data only
extract_color_coding_from_text(text, max_fiber_count) ==
    extract_tabular_color_coding(text, max_fiber_count)

\* lines 467-468: int of the first run of digits of the label, 0 without one
numeric_count(fiber_count) ==
    Bind(DigitRuns(fiber_count), LAMBDA runs :
        IF runs = <<>> THEN 0 ELSE ParseInt(runs[1]))

\* lines 463-473: the colour coding of the page text, cut for each variant
\* at its own count, replaces the entries of the variant's 'Colour Coding'
ColourPhase(st, page_text) ==
    Fold(LAMBDA acc, fiber_count :
            Bind(extract_color_coding_from_text(page_text, numeric_count(fiber_count)),
                 LAMBDA color_coding :
                    IF color_coding = <<>> THEN acc
                    ELSE [acc EXCEPT !.fibre_data[fiber_count].Technical_Specifications =
                             DictPut(@, "Colour Coding",
                                 Fold(LAMBDA section, item :
                                         DictPut(section, item[1], item[2]),
                                      DictGet(@, "Colour Coding", <<>>),
                                      color_coding))]),
         st, st.detected_fiber_counts)

\* lines 461-581 for a page whose text was extracted: the colour coding,
\* the matches of the fixed patterns, then those of the patterns of the
\* overlay
TextPhase(st, page) ==
    IF page.text_error \/ page.text = <<>> THEN st
    ELSE Fold(ApplyEnhanced,
              MergeTextParameters(ColourPhase(st, page.text),
                  extract_parameters_from_text(st.reg,
                      page.matches \o DynamicMatches(st.reg, page.text))),
              page.enhanced)

\* cleaned_row[col_idx] for a column index of the code, which counts from 0
Cell(cleaned_row, col_idx) == cleaned_row[col_idx + 1]

\* the default, whatever the mapping says
MappedValue_Default(st, cleaned_row, fc, default) == default

\* the value of the column mapped to fc when the mapping has fc and the
\* column exists and is not blank, else the given default
MappedValue(st, cleaned_row, fc, default) ==
    Bind(DictGet(st.fiber_column_mappings, fc, [column |-> 0]).column,
         LAMBDA col_idx :
            IF /\ DictHas(st.fiber_column_mappings, fc)
               /\ col_idx < Len(cleaned_row)
               /\ Cell(cleaned_row, col_idx) # <<>>
            THEN clean_parameter_value(Cell(cleaned_row, col_idx))
            ELSE default)

\* the entries of fiber_column_mappings a row of table table_id looks up,
\* as <<table that built the entry, table_id>>
Consults(st, table_id) ==
    { <<DictGet(st.fiber_column_mappings, st.detected_fiber_counts[k], <<>>).table,
        table_id>> :
        k \in { j \in 1..Len(st.detected_fiber_counts) :
                  DictHas(st.fiber_column_mappings, st.detected_fiber_counts[j]) } }

\* a 'fibre count' row that is skipped like the other header rows
HeaderRow_Skip(st, cleaned_row, table_id) == st

\* lines 607-627: a 'fibre count' row maps each label it lists to its last
\* column and stamps every variant with its own count
HeaderRow(st, cleaned_row, table_id) ==
    Fold(LAMBDA acc, fc :
            LET cols == { col_idx \in 1..(Len(cleaned_row) - 1) :
                            /\ Cell(cleaned_row, col_idx) # <<>>
                            /\ Upper(fc) = Upper(Cell(cleaned_row, col_idx)) }
            IN [acc EXCEPT
                  !.fiber_column_mappings =
                      IF cols = {} THEN @
                      ELSE DictPut(@, fc,
                               [column |-> CHOOSE c \in cols : \A d \in cols : d <= c,
                                table |-> table_id]),
                  !.fibre_data = Store(@, fc, acc.current_section,
                                       Chars("Fiber Count"), RemoveF(fc), TRUE)],
         st, st.detected_fiber_counts)

\* lines 672-695: the value of the mapped column is kept aside
FibresPerTubeRow(st, cleaned_row, parameter_name, table_id) ==
    Fold(LAMBDA acc, fc :
            Bind(MappedValue(acc, cleaned_row, fc, NoneCell),
                 LAMBDA parameter_value :
                    [acc EXCEPT
                       !.fibre_data = Store(@, fc, acc.current_section,
                                            <<>>, <<>>, FALSE),
                       !.fiber_specific_values =
                           IF parameter_value = NoneCell THEN @
                           ELSE DictPut(@, fc,
                                    DictPut(DictGet(@, fc, <<>>),
                                            <<acc.current_section, parameter_name>>,
                                            parameter_value))]),
         [st EXCEPT !.consulted = @ \cup Consults(st, table_id)],
         st.detected_fiber_counts)

\* lines 700-703: the first value of the row
FirstValue(cleaned_row) ==
    IF Cell(cleaned_row, 1) # <<>>
    THEN clean_parameter_value(Cell(cleaned_row, 1)) ELSE <<>>

\* lines 697-749: the value is written under the section of the name and
\* under current_section
DiameterRow(st, cleaned_row, parameter_name, table_id) ==
    Fold(LAMBDA acc, fc :
            [acc EXCEPT !.fibre_data =
                Store(@, fc, acc.current_section, parameter_name,
                      MappedValue(acc, cleaned_row, fc, FirstValue(cleaned_row)),
                      TRUE)],
         Fold(LAMBDA acc, fc :
                 Bind(get_parameter_category(acc.reg, parameter_name),
                      LAMBDA parameter_section :
                         [acc EXCEPT
                            !.reg = add_parameter_if_new(parameter_section.reg,
                                        parameter_name, parameter_section.res,
                                        None, None).reg,
                            !.fibre_data =
                                Store(@, fc, parameter_section.res, parameter_name,
                                      MappedValue(acc, cleaned_row, fc,
                                                  FirstValue(cleaned_row)),
                                      TRUE)]),
              [st EXCEPT !.consulted = @ \cup Consults(st, table_id)],
              st.detected_fiber_counts),
         st.detected_fiber_counts)


\* what stands for the dict parse_color_sequence returns (lines 80-97); no
\* row stores it, lines 886 and 909 skip the rows that can have it
DictValue == <<"dict">>

\* lines 751-845: the value of a general row, NoneCell when the row is
\* skipped or no value is found, DictValue for a colour mapping.  fiber_count
\* is the loop variable left by the last loop over detected_fiber_counts.
\* The units and marks that are not ASCII are left out: no cell has them
RowValue(st, cleaned_row, parameter_name) ==
    LET fcs == st.detected_fiber_counts
        fiber_count == fcs[Len(fcs)]
        name_lower == Lower(parameter_name)
        cells == SelectSeq(Tail(cleaned_row), LAMBDA c : c # <<>>)
        Labelled(c, fc) == IsSubstr(Upper(fc), Upper(c))
        First(list, Test(_)) ==
            IF \E i \in 1..Len(list) : Test(list[i])
            THEN list[CHOOSE i \in 1..Len(list) :
                        Test(list[i]) /\ \A j \in 1..(i - 1) : ~Test(list[j])]
            ELSE NoneCell
        header_like ==
            /\ \E i \in 1..Len(cells) : Labelled(cells[i], fiber_count)
            /\ \E i \in 1..Len(cleaned_row), k \in 1..Len(fcs) : cleaned_row[i] = fcs[k]
        data_columns ==
            SelectSeq(cells, LAMBDA c : \A k \in 1..Len(fcs) : ~Labelled(c, fcs[k]))
        method1 ==
            IF Len(data_columns) = Len(fcs)
            THEN data_columns[CHOOSE i \in 1..Len(fcs) :
                                 /\ fcs[i] = fiber_count
                                 /\ \A j \in 1..(i - 1) : fcs[j] # fiber_count]
            ELSE NoneCell
        value_parts ==
            SelectSeq(cells, LAMBDA c :
                c \notin {Chars("---"), Chars("N/A"), Chars("n/a")})
        LooksLikeValue(c) ==
            \/ /\ \E i \in 1..Len(c) : c[i] \in Digits
               /\ \/ HasAny({"mm", "km", "db", "nm", "ps", "kg", "n", "j", "kn"},
                            Lower(c))
                  \/ HasAny({"%", "-", "/"}, c)
            \/ /\ Len(c) > 2
               /\ Lower(c) \notin {Chars("color"), Chars("colour"), Chars("type")}
        method2 ==
            IF method1 # NoneCell THEN method1
            ELSE IF HasAny({"tensile", "strength", "attenuation", "dispersion",
                            "diameter", "wavelength", "bend"}, name_lower)
                 THEN IF value_parts = <<>> THEN NoneCell
                      ELSE Strip(CollapseSpaces(Join(value_parts), 1))
            ELSE First(cells, LooksLikeValue)
        color_cells ==
            SelectSeq(cells, LAMBDA c :
                /\ Len(c) >= 2 /\ Len(c) <= 4
                /\ \A i \in 1..Len(c) : LowerChar(c[i]) # UpperChar(c[i]))
        method3 ==
            IF HasAny({"color", "colour"}, name_lower) /\ color_cells # <<>>
            THEN DictValue ELSE method2
    IN IF header_like THEN NoneCell
       ELSE IF method3 # NoneCell THEN method3
       ELSE First(cells, LAMBDA c :
                Lower(c) \notin {Chars("---"), Chars("n/a"), Chars("na")})

\* lines 847-868: the columns of the row whose cell names a variant, for a
\* row that names one
LocalFiberValues(st, cleaned_row) ==
    Fold(LAMBDA acc, fc :
            LET headers ==
                    { col_idx \in 1..(Len(cleaned_row) - 1) :
                        /\ Cell(cleaned_row, col_idx) # <<>>
                        /\ \/ IsSubstr(fc, Upper(Cell(cleaned_row, col_idx)))
                           \/ IsSubstr(Upper(Cell(cleaned_row, col_idx)), fc) }
                col_idx == CHOOSE c \in headers : \A d \in headers : d <= c
            IN IF headers = {} THEN acc
               ELSE DictPut(acc, fc, [column |-> col_idx,
                                      header |-> Cell(cleaned_row, col_idx)]),
         <<>>,
         IF \E k \in 1..Len(st.detected_fiber_counts) :
                IsSubstr(st.detected_fiber_counts[k], Upper(Join(cleaned_row)))
         THEN st.detected_fiber_counts ELSE <<>>)

\* lines 880-905: COLUMN_MAPPINGS is not empty.  A variant it lacks gets the
\* value of the row, a variant it has gets the cell of its column
StoreMapped(st, cleaned_row, parameter_name, parameter_value) ==
    Fold(LAMBDA acc, fc :
            Bind2(ensure_parameter_exists(acc.reg, parameter_name, parameter_value),
                  DictGet(acc.COLUMN_MAPPINGS, fc, [column |-> 0]).column,
                  LAMBDA parameter_section, col_idx :
                [acc EXCEPT
                   !.reg = parameter_section.reg,
                   !.fibre_data =
                       IF ~DictHas(acc.COLUMN_MAPPINGS, fc)
                       THEN Store(@, fc, parameter_section.res, parameter_name,
                                  clean_parameter_value(parameter_value), TRUE)
                       ELSE IF col_idx < Len(cleaned_row)
                       THEN Store(@, fc, parameter_section.res, parameter_name,
                                  clean_parameter_value(
                                     IF Cell(cleaned_row, col_idx) # <<>>
                                     THEN Cell(cleaned_row, col_idx)
                                     ELSE parameter_value), TRUE)
                       ELSE @]),
         st, st.detected_fiber_counts)

\* lines 906-933: every variant gets the value of the row, unless the name
\* is already under its section; the name is taken out of the other sections
StoreShared(st, cleaned_row, parameter_name, parameter_value) ==
    Fold(LAMBDA acc, fc :
            Bind(ensure_parameter_exists(acc.reg, parameter_name, parameter_value),
                 LAMBDA parameter_section :
                [acc EXCEPT
                   !.reg = parameter_section.reg,
                   !.fibre_data =
                       IF DictHas(DictGet(acc.fibre_data[fc].Technical_Specifications,
                                          parameter_section.res, <<>>),
                                  parameter_name)
                       THEN @
                       ELSE [Store(acc.fibre_data, fc, parameter_section.res,
                                   parameter_name,
                                   clean_parameter_value(parameter_value), TRUE)
                             EXCEPT ![fc].Technical_Specifications =
                                 [i \in 1..Len(@) |->
                                     IF @[i][1] = parameter_section.res THEN @[i]
                                     ELSE <<@[i][1],
                                            DictDel(@[i][2], parameter_name)>>]]]),
         st, st.detected_fiber_counts)

\* lines 847-933: the value of a general row is stored; a row without a
\* value is skipped
StoreRow(st, cleaned_row, parameter_name, parameter_value) ==
    IF parameter_value = NoneCell THEN st
    ELSE IF LocalFiberValues(st, cleaned_row) # <<>>
         THEN [st EXCEPT !.COLUMN_MAPPINGS = LocalFiberValues(st, cleaned_row)]
    ELSE IF HasAny({"fibre colour", "fiber colour", "colour", "color"},
                   Lower(parameter_name))
         THEN st
    ELSE IF st.COLUMN_MAPPINGS # <<>>
         THEN StoreMapped(st, cleaned_row, parameter_name, parameter_value)
    ELSE StoreShared(st, cleaned_row, parameter_name, parameter_value)

\* a table that starts with an empty mapping
StartTable_Reset(st) == [st EXCEPT !.fiber_column_mappings = <<>>]

\* lines 583-591: a table starts.  fiber_column_mappings, set up once at
\* line 352, is not reset here
StartTable(st) == st

\* lines 596-600: None as the empty string, every cell stripped
CleanedRow(row) ==
    [i \in 1..Len(row) |-> IF row[i] = NoneCell THEN <<>> ELSE Strip(row[i])]

\* lines 601-605: current_section follows a row that names a section
Sectioned(st, new_section) ==
    [st EXCEPT !.reg = new_section.reg,
               !.current_section =
                   IF new_section.res # "General Information"
                   THEN new_section.res ELSE @]

\* lines 629-933: a row by its normalized name
NamedRow(st, cleaned_row, parameter_name, table_id) ==
    IF HasAny({"fibre count", "fiber count"}, Lower(parameter_name)) THEN st
    ELSE IF HasAny({"number of fibres per tube", "number of fibers per tube",
                    "fibres per tube", "fibers per tube"}, Lower(parameter_name))
         THEN FibresPerTubeRow(st, cleaned_row, parameter_name, table_id)
    ELSE IF HasAny({"cable diameter", "cable weight", "number of loose tubes"},
                   Lower(parameter_name))
         THEN DiameterRow(st, cleaned_row, parameter_name, table_id)
    ELSE StoreRow(st, cleaned_row, parameter_name,
                  RowValue(st, cleaned_row, parameter_name))

\* lines 593-933: one row of a table
ProcessRow(st, row, table_id) ==
    IF Len(row) < 2 THEN st
    ELSE Bind(CleanedRow(row), LAMBDA cleaned_row :
        IF \/ cleaned_row[1] = <<>>
           \/ Lower(cleaned_row[1]) \in
                {Chars(w) : w \in {"parameter", "sl.no.", "sr.no.",
                                   "specifications", "description", "details",
                                   "type", "color", "dimensions"}}
        THEN st
        ELSE IF HasAny({"fibre count", "fiber count"}, Lower(cleaned_row[1]))
             THEN HeaderRow(st, cleaned_row, table_id)
        ELSE NamedRow(Sectioned(st, identify_section_from_keywords(
                                        st.reg, Join(cleaned_row))),
                      cleaned_row, normalize_parameter_name(cleaned_row[1]),
                      table_id))

\* lines 939-946: the values kept aside are written, filed under the section
\* that was current when their row was read
ApplyStored(st) ==
    Fold(LAMBDA acc, item :
            Fold(LAMBDA acc2, v :
                    [acc2 EXCEPT !.fibre_data =
                        Store(@, item[1], v[1][1], v[1][2], v[2], TRUE)],
                 acc, item[2]),
         st, st.fiber_specific_values)

\* lines 952-953: the (section, name, value) entries of the specifications
\* of a variant, in the order the loops reach them
Entries(specs) ==
    Concat([i \in 1..Len(specs) |->
              [j \in 1..Len(specs[i][2]) |->
                  [section_name |-> specs[i][1],
                   param_name |-> specs[i][2][j][1],
                   param_value |-> specs[i][2][j][2]]]])

\* a move that replaces what the correct section holds
MoveInto_Overwrite(specs, correct_section, p) ==
    DictPut(specs, correct_section,
            DictPut(DictGet(specs, correct_section, <<>>), p[1], p[2]))

\* a move that puts nothing under the correct section
MoveInto_Drop(specs, correct_section, p) == specs

\* lines 969-972: the parameter p = <<name, value>> is put under the correct
\* section only if the section does not have the name
MoveInto(specs, correct_section, p) ==
    IF DictHas(DictGet(specs, correct_section, <<>>), p[1]) THEN specs
    ELSE DictPut(specs, correct_section,
                 DictPut(DictGet(specs, correct_section, <<>>), p[1], p[2]))

\* a pass that moves nothing
ReconcileVariant_Keep(st, fc) == st

\* lines 948-972, for one variant: every parameter filed under a section
\* other than the one categorize_parameter returns is taken out, then put
\* under that section unless the section already has the name
ReconcileVariant(st, fc) ==
    Bind2(st.fibre_data[fc].Technical_Specifications,
          Fold(LAMBDA acc, e :
                  Bind(get_parameter_category(acc.reg, e.param_name),
                       LAMBDA correct_section :
                          IF correct_section.res = e.section_name
                          THEN [acc EXCEPT !.reg = correct_section.reg]
                          ELSE [reg |-> correct_section.reg,
                                specs |-> DictPut(acc.specs, e.section_name,
                                             DictDel(DictGet(acc.specs, e.section_name,
                                                             <<>>),
                                                     e.param_name)),
                                parameters_to_move |->
                                    DictPut(acc.parameters_to_move,
                                            correct_section.res,
                                        DictPut(DictGet(acc.parameters_to_move,
                                                        correct_section.res, <<>>),
                                                e.param_name, e.param_value))]),
               [reg |-> st.reg,
                specs |-> st.fibre_data[fc].Technical_Specifications,
                parameters_to_move |-> <<>>],
               Entries(st.fibre_data[fc].Technical_Specifications)),
          LAMBDA specs, found :
        [st EXCEPT
           !.reg = found.reg,
           !.fibre_data[fc].Technical_Specifications =
               Fold(LAMBDA acc, item :
                       Fold(LAMBDA acc2, p : MoveInto(acc2, item[1], p),
                            DictPut(acc, item[1], DictGet(acc, item[1], <<>>)),
                            item[2]),
                    found.specs, found.parameters_to_move),
           !.parameters_to_move = found.parameters_to_move])

-----------------------------------------------------------------------------
(* Idle values of the variables a specification does not use               *)

CleanIdle == value = <<>> /\ cleaned = <<>> /\ recleaned = <<>> /\ cpc = "idle"

RunIdle ==
    /\ fibre_data = <<>>
    /\ current_section = "General Information"
    /\ fiber_column_mappings = <<>>
    /\ fiber_specific_values = <<>>
    /\ COLUMN_MAPPINGS = <<>>
    /\ todo = <<>>
    /\ consulted = {}
    /\ parameters_to_move = <<>>

DocIdle ==
    /\ filename = <<>>
    /\ pages = <<>>
    /\ open_error = FALSE
    /\ detected_fiber_counts = <<>>
    /\ pc = "idle"
    /\ RunIdle

SvcIdle == response = <<>> /\ served = 0 /\ start_reg = <<>>

ConcIdle == request = <<>> /\ running = 0 /\ SvcIdle

RegIdle ==
    /\ dynamic_params = EmptyOverlay
    /\ SECTION_KEYWORDS = NothingAppended
    /\ config_file = EmptyOverlay
    /\ disk = "ok"
    /\ calls = 0
    /\ assigned = {}

-----------------------------------------------------------------------------
(* SpecClean: clean_parameter_value applied once and twice to every        *)
(* concatenation of at most MaxFrags fragments                             *)

MaxFrags == 5

CleanFrags == { Chars(" "), Chars("E"), Chars("3"), Chars("-"), Chars("m"), IEC }

FragSeqs(F, n) == UNION { [1..k -> F] : k \in 0..n }

CleanInputs == { Concat(fs) : fs \in FragSeqs(CleanFrags, MaxFrags) }

\* measurements as the data sheets print them: a number, a unit after it
Measurements == { Chars("12.5 mm"), Chars("9 N"), Chars("25 kg/km"),
                  Chars("0.25"), Chars("10 N.m"), Chars("3") }

Separators == { Chars(" "), Chars("  "), Chars("\t") }

\* 'IEC-<digits and hyphens>-<letter><digits>'
FullCodes == { Chars("IEC-60794-1-21-E7"), Chars("IEC-60794-1-2-E11"),
               Chars("IEC-6-E3"), Chars("IEC-60794--F5") }

CodedInputs == { m \o w \o c : m \in Measurements, w \in Separators, c \in FullCodes }

CleanInit ==
    /\ value \in CleanInputs \cup CodedInputs
    /\ cleaned = <<>>
    /\ recleaned = <<>>
    /\ cpc = "in"
    /\ DocIdle
    /\ RegIdle
    /\ ConcIdle

\* cleaned = clean_parameter_value(value)
CleanOnce ==
    /\ cpc = "in"
    /\ cleaned' = clean_parameter_value(value)
    /\ cpc' = "once"
    /\ UNCHANGED <<value, recleaned>>
    /\ UNCHANGED <<docVars, regVars, concVars, svcVars>>

\* recleaned = clean_parameter_value(cleaned)
CleanTwice ==
    /\ cpc = "once"
    /\ recleaned' = clean_parameter_value(cleaned)
    /\ cpc' = "twice"
    /\ UNCHANGED <<value, cleaned>>
    /\ UNCHANGED <<docVars, regVars, concVars, svcVars>>

CleanNext == CleanOnce \/ CleanTwice

SpecClean == CleanInit /\ [][CleanNext]_vars

-----------------------------------------------------------------------------
(* SpecResolver: the Fiber-Count Resolver on one document                  *)

MaxNameFrags == 2

MaxTextFrags == 2

NameFrags == { Chars("24F"), Chars("96f"), Chars("37F"), Chars(",") }

TextFrags == { Chars(" 96F cable"), Chars(" 24f,"), Chars(" 37F") }

FilenameInputs == { Concat(fs) \o Chars(".pdf") : fs \in FragSeqs(NameFrags, MaxNameFrags) }

TextInputs == { Concat(fs) : fs \in FragSeqs(TextFrags, MaxTextFrags) }

RowFibresPerTube == <<Chars("Fibres per tube"), Chars("12")>>

RowTubesEight == <<Chars("Number of loose tubes"), NoneCell, Chars("8 ")>>

RowTubesMany == <<Chars("Number of loose tubes"), Chars("51"), Chars("3")>>

RowDiameter == <<Chars("Cable Diameter"), Chars("12")>>

\* the tables of a page: none, or one table of two rows
TablesInputs ==
    { <<>>,
      << <<RowFibresPerTube, RowTubesEight>> >>,
      << <<RowTubesMany, RowFibresPerTube>> >>,
      << <<RowDiameter, RowTubesEight>> >> }

ResolverPages ==
    { << [text |-> t, tables |-> tb, text_error |-> e, tables_error |-> FALSE] >> :
        t \in TextInputs, tb \in TablesInputs, e \in BOOLEAN }

ResolverInit ==
    /\ CleanIdle
    /\ RegIdle
    /\ ConcIdle
    /\ RunIdle
    /\ filename \in FilenameInputs
    /\ pages \in ResolverPages
    /\ open_error \in BOOLEAN
    /\ detected_fiber_counts = <<>>
    /\ pc = "start"

\* lines 354-438: the document opens and its variants are resolved
Resolve ==
    /\ pc = "start"
    /\ ~open_error
    /\ detected_fiber_counts' \in ResolvedLists(filename, pages)
    /\ pc' = "resolved"
    /\ UNCHANGED <<filename, pages, open_error, runVars>>
    /\ UNCHANGED <<cleanVars, regVars, concVars, svcVars>>

\* lines 976-978: pdfplumber.open raises, extract_grouped_data returns {}, []
OpenFails ==
    /\ pc = "start"
    /\ open_error
    /\ detected_fiber_counts' = <<>>
    /\ pc' = "failed"
    /\ UNCHANGED <<filename, pages, open_error, runVars>>
    /\ UNCHANGED <<cleanVars, regVars, concVars, svcVars>>

ResolverNext == Resolve \/ OpenFails

SpecResolver == ResolverInit /\ [][ResolverNext]_vars

-----------------------------------------------------------------------------
(* SpecRegistry: calls of the registry's entry points on the process-wide  *)
(* param_manager, at most MaxCalls of them                                 *)

MaxCalls == 3

\* the registry as the record the registry operators take
Registry ==
    [dynamic_params |-> dynamic_params, SECTION_KEYWORDS |-> SECTION_KEYWORDS,
     config_file |-> config_file, disk |-> disk]

\* the registry variables after a call that left the registry reg
SetRegistry(reg) ==
    /\ dynamic_params' = reg.dynamic_params
    /\ SECTION_KEYWORDS' = reg.SECTION_KEYWORDS
    /\ config_file' = reg.config_file
    /\ disk' = reg.disk

\* a registry that has learned nothing and one whose overlay file was
\* written by an earlier process
LoadedRegistries ==
    LET fresh == [dynamic_params |-> EmptyOverlay,
                  SECTION_KEYWORDS |-> NothingAppended,
                  config_file |-> EmptyOverlay, disk |-> "ok"]
    IN { fresh,
         add_new_parameter(fresh, Chars("Rip Gauge"), "Cable Construction",
                           None, None).reg }

RegistrySections == { None, "Cable Construction", "Physical Specifications" }

RegistryInit ==
    /\ CleanIdle
    /\ DocIdle
    /\ ConcIdle
    /\ \E reg \in LoadedRegistries :
          /\ dynamic_params = reg.dynamic_params
          /\ SECTION_KEYWORDS = reg.SECTION_KEYWORDS
          /\ config_file = reg.config_file
          /\ disk = reg.disk
    /\ calls = 0
    /\ assigned = {}

\* assigned after a call that was made with parameter_name and returned
\* call: the pairs of the other names, and the pair of this name when the
\* call added it under the section categorize_parameter returns for it
Assigned(call, parameter_name) ==
    { a \in assigned : Lower(a[1]) # Lower(parameter_name) }
    \cup IF /\ call.reg.dynamic_params # dynamic_params
            /\ get_parameter_category(call.reg, parameter_name).res = call.res
         THEN {<<parameter_name, call.res>>} ELSE {}

\* add_parameter_if_new(parameter_name, suggested_section)
AddParameterIfNew ==
    /\ calls < MaxCalls
    /\ \E parameter_name \in RegistryNames, suggested_section \in RegistrySections :
          LET call == add_parameter_if_new(Registry, parameter_name,
                                           suggested_section, None, None)
          IN /\ SetRegistry(call.reg)
             /\ assigned' = Assigned(call, parameter_name)
    /\ calls' = calls + 1
    /\ UNCHANGED <<cleanVars, docVars, concVars, svcVars>>

\* ensure_parameter_exists(parameter_name, parameter_value)
EnsureParameterExists ==
    /\ calls < MaxCalls
    /\ \E parameter_name \in RegistryNames, parameter_value \in RegistryValues :
          LET call == ensure_parameter_exists(Registry, parameter_name,
                                              parameter_value)
          IN /\ SetRegistry(call.reg)
             /\ assigned' = IF call.reg.dynamic_params # dynamic_params
                            THEN Assigned(call, parameter_name) ELSE assigned
    /\ calls' = calls + 1
    /\ UNCHANGED <<cleanVars, docVars, concVars, svcVars>>

\* categorize_parameter(parameter_name)
CategorizeParameter ==
    /\ calls < MaxCalls
    /\ \E parameter_name \in RegistryNames :
          SetRegistry(get_parameter_category(Registry, parameter_name).reg)
    /\ calls' = calls + 1
    /\ UNCHANGED <<assigned, cleanVars, docVars, concVars, svcVars>>

\* identify_section(row_text)
IdentifySection ==
    /\ calls < MaxCalls
    /\ \E row_text \in RegistryTexts :
          SetRegistry(identify_section_from_keywords(Registry, row_text).reg)
    /\ calls' = calls + 1
    /\ UNCHANGED <<assigned, cleanVars, docVars, concVars, svcVars>>

\* the directory of dynamic_parameters.json stops or starts being writable
DiskChanges ==
    /\ disk' = IF disk = "ok" THEN "readonly" ELSE "ok"
    /\ UNCHANGED <<dynamic_params, SECTION_KEYWORDS, config_file, calls, assigned>>
    /\ UNCHANGED <<cleanVars, docVars, concVars, svcVars>>

RegistryNext ==
    \/ AddParameterIfNew
    \/ EnsureParameterExists
    \/ CategorizeParameter
    \/ IdentifySection
    \/ DiskChanges

SpecRegistry == RegistryInit /\ [][RegistryNext]_vars

-----------------------------------------------------------------------------
(* SpecConcurrent: MaxRequests uploads handled by extract_pdf on the one   *)
(* event loop of the process.  extract_pdf is a coroutine whose only await *)
(* is file.read(); from there to its return it runs without yielding the   *)
(* loop.  Each document discovers one parameter the registry does not      *)
(* know: the overlay is extended in memory, then written to the file.      *)

MaxRequests == 2

\* the parameter each document discovers
Discovered == <<Chars("Jacket Material"), Chars("Rip Gauge"), Chars("Sheath Hardness")>>

\* the positions at which extract_pdf is suspended and the loop is free
AwaitPoints_AfterAdd == {"await_read", "added"}

AwaitPoints == {"await_read"}

\* the coroutine of request d may take its next step
Runnable(d) ==
    \/ running = d
    \/ running = 0 /\ request[d].pc \in AwaitPoints

\* the coroutine of request d moves to position next
Goto(d, next) ==
    /\ request' = [request EXCEPT ![d].pc = next]
    /\ running' = IF next \in AwaitPoints \cup {"done"} THEN 0 ELSE d

ConcurrentInit ==
    /\ CleanIdle
    /\ DocIdle
    /\ dynamic_params = EmptyOverlay
    /\ SECTION_KEYWORDS = NothingAppended
    /\ config_file = EmptyOverlay
    /\ disk \in {"ok", "readonly"}
    /\ calls = 0
    /\ assigned = {}
    /\ request \in [1..MaxRequests ->
                      [pc : {"none"},
                       section : {"Cable Construction", "Physical Specifications"}]]
    /\ running = 0
    /\ SvcIdle

\* a POST /extract arrives: the coroutine starts and awaits file.read()
Upload(d) ==
    /\ request[d].pc = "none"
    /\ running = 0
    /\ Goto(d, "await_read")
    /\ UNCHANGED <<cleanVars, docVars, svcVars, regVars>>

\* file.read() completes and the loop resumes the coroutine, which writes
\* the temporary file and enters extract_grouped_data
ReadCompletes(d) ==
    /\ request[d].pc = "await_read"
    /\ Runnable(d)
    /\ Goto(d, "extracting")
    /\ UNCHANGED <<cleanVars, docVars, svcVars, regVars>>

\* add_new_parameter up to its call of save_dynamic_parameters
AddInMemory(d) ==
    /\ request[d].pc = "extracting"
    /\ Runnable(d)
    /\ LET call == add_parameter_if_new(Registry, Discovered[d],
                                        request[d].section, None, None)
       IN /\ dynamic_params' = call.reg.dynamic_params
          /\ SECTION_KEYWORDS' = call.reg.SECTION_KEYWORDS
    /\ Goto(d, "added")
    /\ UNCHANGED <<config_file, disk, calls, assigned, cleanVars, docVars, svcVars>>

\* save_dynamic_parameters
Flush(d) ==
    /\ request[d].pc = "added"
    /\ Runnable(d)
    /\ config_file' = save_dynamic_parameters(Registry).config_file
    /\ Goto(d, "flushed")
    /\ UNCHANGED <<dynamic_params, SECTION_KEYWORDS, disk, calls, assigned,
                   cleanVars, docVars, svcVars>>

\* the rest of the extraction, and the response
Respond(d) ==
    /\ request[d].pc = "flushed"
    /\ Runnable(d)
    /\ Goto(d, "done")
    /\ UNCHANGED <<cleanVars, docVars, svcVars, regVars>>

ConcurrentNext ==
    \E d \in 1..MaxRequests :
        \/ Upload(d)
        \/ ReadCompletes(d)
        \/ AddInMemory(d)
        \/ Flush(d)
        \/ Respond(d)

SpecConcurrent == ConcurrentInit /\ [][ConcurrentNext]_vars

-----------------------------------------------------------------------------
(* SpecPipeline: extract_grouped_data on one document of at most MaxPages  *)
(* pages, one step per page text and per table row                         *)

\* what extract_grouped_data and the process hold, as the record the
\* pipeline operators take
Run ==
    [fibre_data |-> fibre_data, current_section |-> current_section,
     fiber_column_mappings |-> fiber_column_mappings,
     fiber_specific_values |-> fiber_specific_values,
     COLUMN_MAPPINGS |-> COLUMN_MAPPINGS,
     detected_fiber_counts |-> detected_fiber_counts,
     reg |-> Registry, consulted |-> consulted,
     parameters_to_move |-> parameters_to_move]

\* the variables after a step that left the record st
SetRun(st) ==
    /\ fibre_data' = st.fibre_data
    /\ current_section' = st.current_section
    /\ fiber_column_mappings' = st.fiber_column_mappings
    /\ fiber_specific_values' = st.fiber_specific_values
    /\ COLUMN_MAPPINGS' = st.COLUMN_MAPPINGS
    /\ consulted' = st.consulted
    /\ parameters_to_move' = st.parameters_to_move
    /\ SetRegistry(st.reg)

\* lines 450-451, 583-595: the page texts and the rows of the tables of at
\* least two rows, in the order the loops reach them.  When extract_tables()
\* raises at line 584 the handler of line 935 goes to the next page
Schedule(pgs) ==
    Concat([p \in 1..Len(pgs) |->
        <<[kind |-> "text", page |-> p, table |-> 0, row |-> 0]>>
        \o Concat([t \in 1..Len(pgs[p].tables) |->
              IF pgs[p].tables_error \/ Len(pgs[p].tables[t]) < 2 THEN <<>>
              ELSE [r \in 1..Len(pgs[p].tables[t]) |->
                       [kind |-> "row", page |-> p, table |-> t, row |-> r]]])])

PipelinePages ==
    UNION { [1..n -> PageInputs] : n \in 1..MaxPages }

PipelineInit ==
    /\ CleanIdle
    /\ RegIdle
    /\ ConcIdle
    /\ RunIdle
    /\ filename \in PipelineFilenames
    /\ pages \in PipelinePages
    /\ open_error \in BOOLEAN
    /\ detected_fiber_counts = <<>>
    /\ pc = "start"

\* lines 354-448: the variants are resolved and every variant gets an empty
\* record
StartDocument ==
    /\ pc = "start"
    /\ ~open_error
    /\ detected_fiber_counts' \in ResolvedLists(filename, pages)
    /\ fibre_data' =
          [fc \in { detected_fiber_counts'[k] : k \in 1..Len(detected_fiber_counts') } |->
              [Document_Text_Content |-> <<>>, Technical_Specifications |-> <<>>]]
    /\ current_section' = "General Information"
    /\ todo' = Schedule(pages)
    /\ pc' = "pages"
    /\ UNCHANGED <<filename, pages, open_error, fiber_column_mappings,
                   fiber_specific_values, COLUMN_MAPPINGS, consulted,
                   parameters_to_move>>
    /\ UNCHANGED <<cleanVars, regVars, concVars, svcVars>>

\* lines 453-581: the text of a page.  When extract_text() raises,
\* extract_text_content has caught it and returned {}, line 462 raises again
\* and the handler of line 935 skips the tables of the page
PageText ==
    /\ pc = "pages"
    /\ Head(todo).kind = "text"
    /\ LET p == Head(todo).page
           rest == IF pages[p].text_error
                   THEN SelectSeq(Tail(todo), LAMBDA u : u.page # p)
                   ELSE Tail(todo)
       IN /\ SetRun(TextPhase(
                       [Run EXCEPT !.fibre_data =
                           [fc \in DOMAIN @ |->
                               [@[fc] EXCEPT !.Document_Text_Content =
                                   DictPut(@, p,
                                       IF pages[p].text_error THEN <<>>
                                       ELSE extract_text_content(pages[p].text))]]],
                       pages[p]))
          /\ todo' = rest
          /\ pc' = IF rest = <<>> THEN "apply" ELSE "pages"
    /\ UNCHANGED <<filename, pages, open_error, detected_fiber_counts>>
    /\ UNCHANGED <<cleanVars, calls, assigned, concVars, svcVars>>

\* lines 583-933: one row of a table, the first after the table has started
TableRow ==
    /\ pc = "pages"
    /\ Head(todo).kind = "row"
    /\ LET u == Head(todo)
       IN SetRun(ProcessRow(IF u.row = 1 THEN StartTable(Run) ELSE Run,
                            pages[u.page].tables[u.table][u.row],
                            <<u.page, u.table>>))
    /\ todo' = Tail(todo)
    /\ pc' = IF Tail(todo) = <<>> THEN "apply" ELSE "pages"
    /\ UNCHANGED <<filename, pages, open_error, detected_fiber_counts>>
    /\ UNCHANGED <<cleanVars, calls, assigned, concVars, svcVars>>

\* lines 939-946
ApplyFiberSpecificValues ==
    /\ pc = "apply"
    /\ SetRun(ApplyStored(Run))
    /\ pc' = "reconcile"
    /\ UNCHANGED <<filename, pages, open_error, detected_fiber_counts, todo>>
    /\ UNCHANGED <<cleanVars, calls, assigned, concVars, svcVars>>

\* lines 948-974: the Reconciliation Pass over the variants, and the return
ReconciliationPass ==
    /\ pc = "reconcile"
    /\ SetRun(Fold(ReconcileVariant, Run, detected_fiber_counts))
    /\ pc' = "done"
    /\ UNCHANGED <<filename, pages, open_error, detected_fiber_counts, todo>>
    /\ UNCHANGED <<cleanVars, calls, assigned, concVars, svcVars>>

PipelineNext ==
    \/ StartDocument
    \/ OpenFails
    \/ PageText
    \/ TableRow
    \/ ApplyFiberSpecificValues
    \/ ReconciliationPass

SpecPipeline == PipelineInit /\ [][PipelineNext]_vars

-----------------------------------------------------------------------------
(* SpecService: extract_pdf answering one upload after another in one      *)
(* process.  Each document goes through the steps of SpecPipeline, then    *)
(* through the output filter; the module-level state stays between them.   *)

MaxUploads == 2

\* the documents uploaded: the basename of the path extract_grouped_data is
\* given, and the pages
ServiceDocuments ==
    { [filename |-> Chars("Cable_6F.pdf"), pages |-> <<Page(ColourText, <<>>)>>],
      [filename |-> Chars("3c9e1b7a.pdf"), pages |-> <<Page(ColourText, <<>>)>>],
      [filename |-> Chars("datasheet.pdf"), pages |-> <<Page(BlankText, <<>>)>>],
      [filename |-> Chars("datasheet.pdf"), pages |-> <<Page(OverviewText, <<>>)>>],
      [filename |-> Chars("Cable_24F96F.pdf"),
       pages |-> <<Page(NoText, <<HeaderTable>>)>>],
      [filename |-> Chars("Cable_24F96F.pdf"),
       pages |-> <<Page(InstallationText, <<VariantTable>>)>>],
      [filename |-> Chars("Cable_24F96F.pdf"),
       pages |-> <<Page(NoText, <<WeightTable>>)>>],
      [filename |-> Chars("Cable_24F96F.pdf"),
       pages |-> <<Page(NoText, <<JacketTable>>)>>] }

\* any(d.values()) for a dict of dicts
AnyValue(d) == \E i \in 1..Len(d) : d[i][2] # <<>>

\* an output filter that lets every record through
Meaningful_All(record) == TRUE

\* lines 1001-1003: has_table_data or has_text_data
Meaningful(record) ==
    AnyValue(record.Technical_Specifications) \/ AnyValue(record.Document_Text_Content)

\* lines 999-1027: the records of the response, one per variant that passes
\* the filter, and the status
Response(grouped_data, fiber_counts) ==
    Bind(Fold(LAMBDA results_, fiber_count :
                 IF Meaningful(grouped_data[fiber_count])
                 THEN Append(results_,
                        [fiber_type |-> fiber_count,
                         document_content |->
                             grouped_data[fiber_count].Document_Text_Content,
                         technical_specifications |->
                             grouped_data[fiber_count].Technical_Specifications])
                 ELSE results_,
              <<>>, fiber_counts),
         LAMBDA results_ :
            [status_code |-> IF results_ = <<>> THEN 400 ELSE 200,
             results |-> results_])

ServiceInit ==
    /\ CleanIdle
    /\ RegIdle
    /\ request = <<>> /\ running = 0
    /\ RunIdle
    /\ \E doc \in ServiceDocuments : filename = doc.filename /\ pages = doc.pages
    /\ open_error \in BOOLEAN
    /\ detected_fiber_counts = <<>>
    /\ pc = "start"
    /\ response = <<>>
    /\ served = 0
    /\ start_reg = Registry

\* lines 997-1027: extract_grouped_data has returned; the response is built
Emit ==
    /\ pc \in {"done", "failed"}
    /\ response' = Response(fibre_data, detected_fiber_counts)
    /\ served' = served + 1
    /\ pc' = "responded"
    /\ UNCHANGED <<filename, pages, open_error, detected_fiber_counts, runVars,
                   start_reg>>
    /\ UNCHANGED <<cleanVars, regVars, request, running>>

\* the next upload: extract_grouped_data starts with fresh locals (lines
\* 349-352); the registry and COLUMN_MAPPINGS are module-level and stay
NextUpload ==
    /\ pc = "responded"
    /\ served < MaxUploads
    /\ \E doc \in ServiceDocuments : filename' = doc.filename /\ pages' = doc.pages
    /\ open_error' \in BOOLEAN
    /\ detected_fiber_counts' = <<>>
    /\ fibre_data' = <<>>
    /\ current_section' = "General Information"
    /\ fiber_column_mappings' = <<>>
    /\ fiber_specific_values' = <<>>
    /\ todo' = <<>>
    /\ consulted' = {}
    /\ parameters_to_move' = <<>>
    /\ start_reg' = Registry
    /\ pc' = "start"
    /\ UNCHANGED <<COLUMN_MAPPINGS, response, served>>
    /\ UNCHANGED <<cleanVars, regVars, request, running>>

ServiceNext ==
    \/ StartDocument
    \/ OpenFails
    \/ PageText
    \/ TableRow
    \/ ApplyFiberSpecificValues
    \/ ReconciliationPass
    \/ Emit
    \/ NextUpload

SpecService == ServiceInit /\ [][ServiceNext]_vars

-----------------------------------------------------------------------------
(* Claims on the Fiber-Count Resolver, under SpecResolver                  *)

\* the labels '<n>F' with n in {2,4,6,8,12,24,48,96,144,288}
AllowListLabels ==
    { Chars("2F"), Chars("4F"), Chars("6F"), Chars("8F"), Chars("12F"), Chars("24F"),
      Chars("48F"), Chars("96F"), Chars("144F"), Chars("288F") }

NoDuplicates(list) ==
    \A i, j \in 1..Len(list) : list[i] = list[j] => i = j

\* C1: every label of the resolved variant list is '<n>F' with n in the
\* allow-list, whichever source contributed it
C1_AllowListGate ==
    pc = "resolved" =>
        \A k \in 1..Len(detected_fiber_counts) :
            detected_fiber_counts[k] \in AllowListLabels

\* C1 witness: the filename and the text both carry '37F', and the resolved
\* list has no '37F'
C1_Witness ==
    /\ pc = "resolved"
    /\ IsSubstr(Chars("37F"), filename)
    /\ IsSubstr(Chars("37F"), pages[1].text)
    /\ ~pages[1].text_error
    /\ ~InSeq(Chars("37F"), detected_fiber_counts)

\* C2: when the filename yields a label, every resolved label comes from the
\* filename or from construction arithmetic, never from the text alone; a
\* filename encoding 24F, a text mentioning 96F and no table resolve to
\* exactly ['24F']
C2_FilenamePrecedence ==
    pc = "resolved" =>
        LET fn   == extract_primary_fiber_count_from_filename(filename)
            calc == calculate_fiber_count_from_construction(AllTables(pages))
        IN /\ fn # <<>> =>
                \A k \in 1..Len(detected_fiber_counts) :
                    \/ InSeq(detected_fiber_counts[k], fn)
                    \/ detected_fiber_counts[k] = calc
           /\ (filename = Chars("24F.pdf") /\ pages[1].tables = <<>>)
                => detected_fiber_counts = <<Chars("24F")>>

\* C2 witness: the filename encodes 24F, the text read mentions 96F, there
\* is no table, and the resolved list is ['24F']
C2_Witness ==
    /\ pc = "resolved"
    /\ filename = Chars("24F.pdf")
    /\ ~pages[1].text_error
    /\ pages[1].text = Chars(" 96F cable")
    /\ pages[1].tables = <<>>
    /\ detected_fiber_counts = <<Chars("24F")>>

\* C3 as claimed: the returned variant list is never empty and has no
\* duplicate, also when opening the document fails
C3_NeverEmptyAlways ==
    pc \in {"resolved", "failed"} =>
        detected_fiber_counts # <<>> /\ NoDuplicates(detected_fiber_counts)

\* C3 amended: a document that opens resolves to a non-empty list without
\* duplicates; a document that fails to open yields the empty list
C3_NeverEmptyWhenOpened ==
    /\ pc = "resolved" =>
          detected_fiber_counts # <<>> /\ NoDuplicates(detected_fiber_counts)
    /\ pc = "failed" => detected_fiber_counts = <<>>

\* C3 witness: the filename names 24F twice and the list holds it once
C3_Witness ==
    /\ pc = "resolved"
    /\ filename = Chars("24F24F.pdf")
    /\ detected_fiber_counts = <<Chars("24F")>>

-----------------------------------------------------------------------------
(* Claims on the Value Normalizer, under SpecClean                         *)

\* C10: clean_parameter_value(clean_parameter_value(v)) = clean_parameter_value(v)
\* for every input string v
C10_Idempotent == cpc = "twice" => recleaned = cleaned

-----------------------------------------------------------------------------
(* Claims on the parameter registry, under SpecRegistry                    *)

\* the sections of the overlay that list the name, compared in lower case
SectionsListing(parameter_name) ==
    { i \in 1..Len(dynamic_params.parameters) :
        \E j \in 1..Len(dynamic_params.parameters[i][2]) :
            Lower(dynamic_params.parameters[i][2][j]) = Lower(parameter_name) }

\* C7: every parameter name recorded in the registry belongs to exactly one
\* section, whatever sequence of additions produced the registry.
C7_SingleSection ==
    \A parameter_name \in RegistryNames \cup {Chars("Rip Gauge")} :
        Cardinality(SectionsListing(parameter_name)) <= 1

-----------------------------------------------------------------------------
(* Claims on concurrently processed documents, under SpecConcurrent        *)

\* the names the overlay lists, in any section
OverlayNames(overlay) ==
    UNION { { overlay.parameters[i][2][j] : j \in 1..Len(overlay.parameters[i][2]) } :
            i \in 1..Len(overlay.parameters) }

\* C9: the add-and-flush steps of two documents do not interleave: while one
\* request is between its add and its flush no other request is, and, the
\* file being writable, the file holds the overlay as it was before that
\* add.  After all requests complete, the overlay in memory holds the
\* parameter of every request and, the file being writable, the file holds
\* the same overlay.
C9_Serialized ==
    /\ \A d \in 1..MaxRequests, e \in 1..MaxRequests :
          request[d].pc = "added" /\ e # d =>
             /\ request[e].pc # "added"
             /\ disk = "ok" =>
                   OverlayNames(dynamic_params)
                      = OverlayNames(config_file) \cup {Discovered[d]}
    /\ (\A d \in 1..MaxRequests : request[d].pc = "done") =>
          /\ \A d \in 1..MaxRequests :
                Discovered[d] \in OverlayNames(dynamic_params)
          /\ disk = "ok" => config_file = dynamic_params

\* two documents have completed, each having added its parameter
C9_Witness ==
    /\ \A d \in 1..MaxRequests : request[d].pc = "done"
    /\ Cardinality(OverlayNames(config_file)) >= 2
    /\ config_file.parameters # <<>>

-----------------------------------------------------------------------------
(* Claims on the pipeline, under SpecPipeline                              *)

\* the sections of the record of variant fc that hold parameter name
SectionsHolding(fc, name) ==
    LET specs == fibre_data[fc].Technical_Specifications
    IN { specs[i][1] : i \in { k \in 1..Len(specs) : DictHas(specs[k][2], name) } }

\* the parameter names in the record of variant fc
NamesStored(fc) ==
    LET specs == fibre_data[fc].Technical_Specifications
    IN UNION { { specs[i][2][j][1] : j \in 1..Len(specs[i][2]) } : i \in 1..Len(specs) }

\* C4: when the Reconciliation Pass has finished, every parameter name
\* stored in a variant's record is filed under exactly one section, the one
\* categorize_parameter returns for the name.
C4_SectionStable ==
    pc = "done" =>
        \A fc \in DOMAIN fibre_data : \A name \in NamesStored(fc) :
            SectionsHolding(fc, name) = {get_parameter_category(Registry, name).res}

\* C4 witness: the pass has finished after taking a parameter out of a
\* section it did not belong to, and the record still holds that parameter.
C4_Witness ==
    /\ pc = "done"
    /\ parameters_to_move # <<>>
    /\ \E fc \in DOMAIN fibre_data :
          \E i \in 1..Len(parameters_to_move) :
              parameters_to_move[i][2] # <<>>
              /\ parameters_to_move[i][2][1][1] \in NamesStored(fc)

\* the pages whose processing did not raise
PagesRead ==
    { p \in 1..Len(pages) : ~pages[p].text_error /\ ~pages[p].tables_error }

\* the values the page texts yield for a name
TextDerived(name) ==
    UNION { { h.value : h \in { m \in { pages[p].matches[i] : i \in 1..Len(pages[p].matches) }
                                       \cup { [name |-> pages[p].enhanced[i].name,
                                               value |-> pages[p].enhanced[i].value] :
                                              i \in 1..Len(pages[p].enhanced) } :
                                  m.name = name } } : p \in PagesRead }

\* the values the table rows yield for a name: a cell of a row of that
\* name, or the cells of the row joined
TableDerived(name) ==
    LET tables == UNION { { pages[p].tables[t] : t \in 1..Len(pages[p].tables) } :
                          p \in PagesRead }
        rows == { row \in UNION { { tb[r] : r \in 1..Len(tb) } : tb \in tables } :
                    normalize_parameter_name(Strip(row[1])) = name }
        Cells(row) == SelectSeq([i \in 1..(Len(row) - 1) |->
                                    IF row[i + 1] = NoneCell THEN <<>>
                                    ELSE Strip(row[i + 1])],
                                LAMBDA c : c # <<>>)
    IN UNION { { clean_parameter_value(Cells(row)[i]) : i \in 1..Len(Cells(row)) }
               \cup { clean_parameter_value(Join(Cells(row))) } : row \in rows }

\* C5: for every variant and every parameter name for which both a table
\* row and a page-text pattern of the document yield a value, the value in
\* the final record is a table-derived one.
C5_TableWins ==
    pc = "done" =>
        \A fc \in DOMAIN fibre_data : \A name \in NamesStored(fc) :
            (TextDerived(name) # {} /\ TableDerived(name) # {}) =>
                \A section \in SectionsHolding(fc, name) :
                    DictGet(DictGet(fibre_data[fc].Technical_Specifications,
                                    section, <<>>), name, <<>>)
                    \in TableDerived(name)

HeaderLabels ==
    { fc \in DOMAIN fibre_data :
        \E p \in PagesRead : \E t \in 1..Len(pages[p].tables) :
            \E r \in 1..Len(pages[p].tables[t]) :
                LET row == pages[p].tables[t][r]
                IN /\ Len(pages[p].tables[t]) >= 2
                   /\ Len(row) >= 2
                   /\ row[1] # NoneCell
                   /\ HasAny({"fibre count", "fiber count"}, Lower(Strip(row[1])))
                   /\ \E i \in 2..Len(row) :
                         row[i] # NoneCell /\ Upper(Strip(row[i])) = Upper(fc) }

-----------------------------------------------------------------------------
(* Claims on successive documents, under SpecService                       *)

\* the 'Fibre Colour' mappings in the record of variant fc, whatever the
\* section they are filed under
ColourMappings(fc) ==
    LET specs == fibre_data[fc].Technical_Specifications
    IN { DictGet(specs[i][2], Chars("Fibre Colour"), <<>>) :
            i \in { k \in 1..Len(specs) : DictHas(specs[k][2], Chars("Fibre Colour")) } }

\* the keys of a mapping, in order
Keys(mapping) == [k \in 1..Len(mapping) |-> mapping[k][1]]

\* a page text of the document holds the colour table of fibres 1 to 12
HoldsColourTable ==
    \E p \in 1..Len(pages) : ~pages[p].text_error /\ pages[p].text = ColourText.text

\* C11: every key k of a 'Fibre Colour' mapping in the record of a variant
\* of count n has int(k) <= n; where the page text holds the colour table
\* of fibres 1 to 12 and the variant is 6F, the keys are exactly '1'..'6'.
C11_ColourTruncation ==
    \A fc \in DOMAIN fibre_data : \A mapping \in ColourMappings(fc) :
        /\ \A k \in 1..Len(mapping) : ParseInt(mapping[k][1]) <= LabelCount(fc)
        /\ (HoldsColourTable /\ fc = Chars("6F")) =>
              Keys(mapping) = [k \in 1..6 |-> IntToStr(k)]

\* C11 witness: the document with the colour table of fibres 1 to 12 has
\* been read for the variant 6F, whose record holds a mapping of six keys.
C11_Witness ==
    /\ pc = "done"
    /\ HoldsColourTable
    /\ Chars("6F") \in DOMAIN fibre_data
    /\ \E mapping \in ColourMappings(Chars("6F")) : Len(mapping) = 6

-----------------------------------------------------------------------------
(* Claims on the rows of a table, under SpecPipeline                       *)

\* the value the record of variant fc holds for name under section, <<>>
\* when it holds none
ValueUnder(data, fc, section, name) ==
    DictGet(DictGet(data[fc].Technical_Specifications, section, <<>>), name, <<>>)

\* the document of one page whose table is the header row
\* ['Fibre Count', '24F', '96F'] followed by
\* ['Cable Diameter', '8.5 mm', '10.2 mm'], named Cable_24F96F.pdf
IsHeaderDocument ==
    /\ filename = Chars("Cable_24F96F.pdf")
    /\ pages = <<Page(NoText, <<HeaderTable>>)>>

\* the row the next step of the table loop processes
NextRow == pages[Head(todo).page].tables[Head(todo).table][Head(todo).row]

\* the name of a row as lines 596-666 read it
RowName(row) == normalize_parameter_name(CleanedRow(row)[1])

\* a diameter, weight or tube-count row (lines 697-699), which no earlier
\* branch of the row loop takes
IsDiameterRow(row) ==
    /\ Len(row) >= 2
    /\ CleanedRow(row)[1] # <<>>
    /\ ~HasAny({"fibre count", "fiber count", "fibres per tube", "fibers per tube"},
               Lower(RowName(row)))
    /\ HasAny({"cable diameter", "cable weight", "number of loose tubes"},
              Lower(RowName(row)))

\* the column mapping has a column for fc and the row has a value there
HasMappedCell(row, fc) ==
    /\ DictHas(fiber_column_mappings, fc)
    /\ DictGet(fiber_column_mappings, fc, <<>>).column < Len(row)
    /\ CleanedRow(row)[DictGet(fiber_column_mappings, fc, <<>>).column + 1] # <<>>

\* C12: the document Cable_24F96F.pdf with the header row
\* ['Fibre Count','24F','96F'] and the row ['Cable Diameter','8.5 mm',
\* '10.2 mm'] yields exactly the records 24F and 96F, with 'Cable Diameter'
\* under 'Cable Construction' equal to '8.5 mm' and '10.2 mm'; and every
\* step that processes a diameter, weight or tube-count row leaves, for each
\* variant whose mapped column has a value in the row, that cell (cleaned)
\* in the record of the variant.
C12_MappedColumn ==
    /\ [](IsHeaderDocument /\ pc = "done" =>
            /\ DOMAIN fibre_data = {Chars("24F"), Chars("96F")}
            /\ Len(detected_fiber_counts) = 2
            /\ ValueUnder(fibre_data, Chars("24F"), "Cable Construction",
                          Chars("Cable Diameter")) = Chars("8.5 mm")
            /\ ValueUnder(fibre_data, Chars("96F"), "Cable Construction",
                          Chars("Cable Diameter")) = Chars("10.2 mm"))
    /\ [][(pc = "pages" /\ Head(todo).kind = "row" /\ IsDiameterRow(NextRow)) =>
            \A fc \in DOMAIN fibre_data :
                HasMappedCell(NextRow, fc) =>
                    \E i \in 1..Len(fibre_data'[fc].Technical_Specifications) :
                        DictGet(fibre_data'[fc].Technical_Specifications[i][2],
                                RowName(NextRow), <<>>)
                        = clean_parameter_value(
                              CleanedRow(NextRow)[
                                  DictGet(fiber_column_mappings, fc, <<>>).column + 1])
         ]_vars

\* C12 witness: the document has been processed and the record of 24F
\* holds the cell of the column the header row mapped to 24F.
C12_Witness ==
    /\ IsHeaderDocument
    /\ pc = "done"
    /\ ValueUnder(fibre_data, Chars("24F"), "Cable Construction",
                  Chars("Cable Diameter")) = Chars("8.5 mm")
    /\ DictHas(fiber_column_mappings, Chars("96F"))

-----------------------------------------------------------------------------
(* Claims on the response, under SpecService                               *)

\* the variants the response has a record for
Emitted == { response.results[i].fiber_type : i \in 1..Len(response.results) }

\* the technical specifications of variant fc have a section with an entry
HasNonEmptySection(fc) ==
    \E i \in 1..Len(fibre_data[fc].Technical_Specifications) :
        fibre_data[fc].Technical_Specifications[i][2] # <<>>

\* the document content of variant fc has a page with a text block that is
\* not empty
HasNonEmptyBlock(fc) ==
    \E i \in 1..Len(fibre_data[fc].Document_Text_Content) :
        \E j \in 1..Len(fibre_data[fc].Document_Text_Content[i][2]) :
            fibre_data[fc].Document_Text_Content[i][2][j][2] # <<>>

\* every page of the document is whitespace and has no table
OnlyBlankPages ==
    \A p \in 1..Len(pages) :
        /\ pages[p].tables = <<>>
        /\ \A k \in 1..Len(pages[p].text) : IsSpace(pages[p].text[k])

\* C13: once the response is built, a resolved variant has a record in it
\* if and only if its technical specifications have a non-empty section or
\* its document content has a non-empty text block; a document of blank
\* pages without tables gets no record.
C13_OutputFilter ==
    pc = "responded" =>
        /\ \A k \in 1..Len(detected_fiber_counts) :
              detected_fiber_counts[k] \in Emitted
              <=> (HasNonEmptySection(detected_fiber_counts[k])
                   \/ HasNonEmptyBlock(detected_fiber_counts[k]))
        /\ Len(response.results) = Cardinality(Emitted)
        /\ OnlyBlankPages => response.results = <<>>

\* C13 witness: a document of blank pages has been answered; its variant
\* was resolved and has no record in the response.
C13_Witness ==
    /\ pc = "responded"
    /\ OnlyBlankPages
    /\ detected_fiber_counts # <<>>
    /\ response.results = <<>>

-----------------------------------------------------------------------------
(* Claims on the persistence of the overlay, under SpecRegistry            *)

-----------------------------------------------------------------------------
(* Claims on a page whose processing raises, under SpecPipeline            *)

\* the pages whose processing raised: extract_text() or extract_tables()
\* raised and the handler of lines 935-937 went to the next page
PagesFailed == { p \in 1..Len(pages) : pages[p].text_error \/ pages[p].tables_error }

\* the text blocks the record of variant fc holds for page p
BlocksOfPage(fc, p) == DictGet(fibre_data[fc].Document_Text_Content, p, <<>>)

\* C15: in the final records a page whose processing raised has no text
\* block, a document all of whose pages raised has no parameter, and a page
\* that follows one that raised has been processed: it has its text blocks.
C15_FailedPageSkipped ==
    pc = "done" =>
        \A fc \in DOMAIN fibre_data :
            /\ \A p \in PagesFailed : BlocksOfPage(fc, p) = <<>>
            /\ PagesFailed = 1..Len(pages) =>
                  \A i \in 1..Len(fibre_data[fc].Technical_Specifications) :
                      fibre_data[fc].Technical_Specifications[i][2] = <<>>
            /\ \A p \in (1..Len(pages)) \ PagesFailed :
                  BlocksOfPage(fc, p) = extract_text_content(pages[p].text)

-----------------------------------------------------------------------------
(* C16: a measurement followed by whitespace and a full standard code      *)

\* the input is measurement m, separator w and full code c, and it has been cleaned
IsCoded(m, w, c) == value = m \o w \o c /\ cpc # "in"

\* C16: clean_parameter_value applied to a measurement followed by whitespace
\* and a full code 'IEC-<digits and hyphens>-<letter><digits>' returns the
\* measurement alone: no remnant of the code, no surrounding whitespace.
C16_CodeRemoved ==
    \A m \in Measurements : \A w \in Separators : \A c \in FullCodes :
        IsCoded(m, w, c) => cleaned = m

\* C16: '12.5 mm IEC-60794-1-21-E7' has been cleaned to '12.5 mm'
C16_Witness ==
    /\ IsCoded(Chars("12.5 mm"), Chars(" "), Chars("IEC-60794-1-21-E7"))
    /\ cleaned = Chars("12.5 mm")

-----------------------------------------------------------------------------
(* C17: what a document's records depend on                                *)

\* extract_grouped_data as it starts in a process that has handled no
\* document: COLUMN_MAPPINGS empty, the registry as the document found it
FreshRun ==
    [fibre_data |->
        [fc \in { detected_fiber_counts[k] : k \in 1..Len(detected_fiber_counts) } |->
            [Document_Text_Content |-> <<>>, Technical_Specifications |-> <<>>]],
     current_section |-> "General Information",
     fiber_column_mappings |-> <<>>,
     fiber_specific_values |-> <<>>,
     COLUMN_MAPPINGS |-> <<>>,
     detected_fiber_counts |-> detected_fiber_counts,
     reg |-> start_reg, consulted |-> {},
     parameters_to_move |-> <<>>]

\* one step of the page loop on the record st
IsolatedStep(st, u) ==
    IF u.kind = "text"
    THEN TextPhase([st EXCEPT !.fibre_data =
                       [fc \in DOMAIN @ |->
                           [@[fc] EXCEPT !.Document_Text_Content =
                               DictPut(@, u.page,
                                   IF pages[u.page].text_error THEN <<>>
                                   ELSE extract_text_content(pages[u.page].text))]]],
                   pages[u.page])
    ELSE ProcessRow(IF u.row = 1 THEN StartTable(st) ELSE st,
                    pages[u.page].tables[u.table][u.row],
                    <<u.page, u.table>>)

\* the records the current document gets from its filename, pages, tables
\* and the registry alone
IsolatedRecords ==
    Fold(ReconcileVariant,
         ApplyStored(Fold(IsolatedStep, FreshRun,
                          SelectSeq(Schedule(pages),
                                    LAMBDA u : u.kind = "text"
                                               \/ ~pages[u.page].text_error))),
         detected_fiber_counts).fibre_data

\* C17: the records produced for a document depend only on the document's
\* filename, pages and tables and on the registry state, never on column
\* mappings or other state a previous document left behind: they are the
\* records of the same document handled alone with the same registry.
C17_RecordsIsolated ==
    pc = "done" => fibre_data = IsolatedRecords

-----------------------------------------------------------------------------
(* C18: general rows with one data cell per variant                        *)

\* a general row: one that reaches the value extraction of lines 751-845
IsGeneralRow(row) ==
    /\ Len(row) >= 2
    /\ CleanedRow(row)[1] # <<>>
    /\ Lower(CleanedRow(row)[1]) \notin
          {Chars(w) : w \in {"parameter", "sl.no.", "sr.no.", "specifications",
                             "description", "details", "type", "color",
                             "dimensions"}}
    /\ ~HasAny({"fibre count", "fiber count"}, Lower(CleanedRow(row)[1]))
    /\ ~HasAny({"fibre count", "fiber count", "fibres per tube", "fibers per tube",
                "cable diameter", "cable weight", "number of loose tubes"},
               Lower(RowName(row)))

\* the data cells of a row: not empty, not the label of a variant
DataCells(row) ==
    SelectSeq(Tail(CleanedRow(row)), LAMBDA c :
        /\ c # <<>>
        /\ \A k \in 1..Len(detected_fiber_counts) :
              ~IsSubstr(Upper(detected_fiber_counts[k]), Upper(c)))

\* the record of variant fc holds v for name under some section
HoldsValue(data, fc, name, v) ==
    \E k \in 1..Len(data[fc].Technical_Specifications) :
        DictGet(data[fc].Technical_Specifications[k][2], name, <<"absent">>) = v

\* C18: when a general table row has as many non-empty, non-label data cells
\* as there are resolved variants, the step that processes the row leaves the
\* i-th data cell (cleaned) as the value of the row's parameter in the record
\* of the i-th resolved variant, for every i.
C18_Positional ==
    [][(/\ pc = "pages"
        /\ Head(todo).kind = "row"
        /\ IsGeneralRow(NextRow)
        /\ Len(DataCells(NextRow)) = Len(detected_fiber_counts))
       => \A i \in 1..Len(detected_fiber_counts) :
             HoldsValue(fibre_data', detected_fiber_counts[i], RowName(NextRow),
                        clean_parameter_value(DataCells(NextRow)[i]))]_vars

-----------------------------------------------------------------------------
(* C19: a name written by a general row is under one section               *)

\* the sections of the record of variant fc that hold name after the step
SectionsAfter(fc, name) ==
    { k \in 1..Len(fibre_data'[fc].Technical_Specifications) :
        DictHas(fibre_data'[fc].Technical_Specifications[k][2], name) }

\* the step changes what the record of variant fc holds for name
Writes(fc, name) ==
    \E k \in 1..Len(fibre_data'[fc].Technical_Specifications) :
        LET section == fibre_data'[fc].Technical_Specifications[k][1]
        IN /\ DictHas(fibre_data'[fc].Technical_Specifications[k][2], name)
           /\ ValueUnder(fibre_data', fc, section, name)
                 # DictGet(DictGet(fibre_data[fc].Technical_Specifications,
                                   section, <<>>), name, <<"absent">>)

\* C19: after a general table row writes parameter P into the record of a
\* variant, P is in exactly one section of that record, whether or not
\* column mappings are in effect and whether or not P was already in its
\* categorized section.
C19_DedupeOnWrite ==
    [][(/\ pc = "pages"
        /\ Head(todo).kind = "row"
        /\ IsGeneralRow(NextRow))
       => \A fc \in DOMAIN fibre_data :
             Writes(fc, RowName(NextRow))
               => Cardinality(SectionsAfter(fc, RowName(NextRow))) = 1]_vars

-----------------------------------------------------------------------------
(* C20: static and learned entries in the two classifiers                  *)

\* the section of the first static keyword list with a keyword in text
StaticKeywordSection(text) ==
    FirstKey(StaticSectionKeywords, LAMBDA item : AnyIn(item[2], Lower(text)))

\* the sections under which a learned keyword is in text
LearnedKeywordSections(text) ==
    { dynamic_params.section_keywords[i][1] :
        i \in { k \in 1..Len(dynamic_params.section_keywords) :
                  \E j \in 1..Len(dynamic_params.section_keywords[k][2]) :
                      IsSubstr(Lower(dynamic_params.section_keywords[k][2][j]),
                               Lower(text)) } }

\* the sections under which a learned name contains text or is contained in it
LearnedCategories(text) ==
    { dynamic_params.parameters[i][1] :
        i \in { k \in 1..Len(dynamic_params.parameters) :
                  \E j \in 1..Len(dynamic_params.parameters[k][2]) :
                      \/ IsSubstr(Lower(dynamic_params.parameters[k][2][j]), Lower(text))
                      \/ IsSubstr(Lower(text), Lower(dynamic_params.parameters[k][2][j])) } }

\* a static name and a learned name of another section both match text
CategoryConflict(text) ==
    /\ Static(Lower(text)).category # None
    /\ LearnedCategories(text) \ {Static(Lower(text)).category} # {}

\* a static keyword and a learned keyword of another section both match text
KeywordConflict(text) ==
    /\ StaticKeywordSection(text) # None
    /\ LearnedKeywordSections(text) \ {StaticKeywordSection(text)} # {}

\* get_parameter_category returns the section of the static entry
C20_CategoryHalf ==
    \A text \in RegistryTexts :
        CategoryConflict(text)
          => get_parameter_category(Registry, text).res = Static(Lower(text)).category

\* C20: for get_parameter_category and for identify_section_from_keywords,
\* when a static entry and a learned entry of a different section both match
\* the input, the section of the static entry is returned.
C20_StaticPrecedence ==
    /\ C20_CategoryHalf
    /\ \A text \in RegistryTexts :
          KeywordConflict(text)
            => identify_section_from_keywords(Registry, text).res
                  = StaticKeywordSection(text)

-----------------------------------------------------------------------------
(* Further claims on the Fiber-Count Resolver, under SpecResolver          *)

\* the labels of the filename, each once, in the order of the filename list
FilenameLabels == UniqueCounts(<<>>, extract_primary_fiber_count_from_filename(filename))

\* the label construction arithmetic yields, <<>> when it yields none
CalculatedLabel == calculate_fiber_count_from_construction(AllTables(pages))

\* C21: when fibres per tube times number of tubes is an allow-listed count,
\* the resolved list starts with the filename labels in their order, holds
\* the calculated label, and holds it right after the filename labels when
\* the filename did not name it: the calculated label never displaces or
\* reorders a filename label.
C21_ConstructionAppended ==
    (pc = "resolved" /\ CalculatedLabel # <<>>) =>
        /\ Len(detected_fiber_counts) >= Len(FilenameLabels)
        /\ SubSeq(detected_fiber_counts, 1, Len(FilenameLabels)) = FilenameLabels
        /\ InSeq(CalculatedLabel, detected_fiber_counts)
        /\ ~InSeq(CalculatedLabel, FilenameLabels)
              => detected_fiber_counts[Len(FilenameLabels) + 1] = CalculatedLabel

\* C21 witness: the filename names 24F, the table gives 12 fibres per tube
\* and 8 tubes, and the resolved list is ['24F', '96F']
C21_Witness ==
    /\ pc = "resolved"
    /\ filename = Chars("24F.pdf")
    /\ CalculatedLabel = Chars("96F")
    /\ detected_fiber_counts = <<Chars("24F"), Chars("96F")>>

-----------------------------------------------------------------------------
(* C22: the Reconciliation Pass on a name its correct section already holds *)

\* the section categorize_parameter returns for name
CorrectSection(name) == get_parameter_category(Registry, name).res

\* the record of variant fc holds name under its correct section and under
\* another section as well
HasConflict(fc, name) ==
    /\ CorrectSection(name) \in SectionsHolding(fc, name)
    /\ SectionsHolding(fc, name) # {CorrectSection(name)}

\* the sections of the record of variant fc that hold name after the step
SectionsHoldingAfter(fc, name) ==
    { fibre_data'[fc].Technical_Specifications[k][1] :
        k \in { i \in 1..Len(fibre_data'[fc].Technical_Specifications) :
                  DictHas(fibre_data'[fc].Technical_Specifications[i][2], name) } }

\* C22: when the Reconciliation Pass moves a parameter into a section that
\* already holds a parameter of the same name, the value stored in the
\* correct section is left unchanged, the moved value is discarded, and the
\* parameter is deleted from its old section.
C22_FirstWriterWins ==
    [][pc = "reconcile" =>
          \A fc \in DOMAIN fibre_data : \A name \in NamesStored(fc) :
              HasConflict(fc, name) =>
                  /\ ValueUnder(fibre_data', fc, CorrectSection(name), name)
                        = ValueUnder(fibre_data, fc, CorrectSection(name), name)
                  /\ SectionsHoldingAfter(fc, name) = {CorrectSection(name)}]_vars

\* C22 witness: the pass has finished; for the last variant it took a
\* parameter out of a wrong section, and the correct section holds the name
\* with another value than the one taken out.
C22_Witness ==
    /\ pc = "done"
    /\ \E i \in 1..Len(parameters_to_move) :
          \E j \in 1..Len(parameters_to_move[i][2]) :
              LET fc == detected_fiber_counts[Len(detected_fiber_counts)]
                  p == parameters_to_move[i][2][j]
              IN /\ DictHas(DictGet(fibre_data[fc].Technical_Specifications,
                                    parameters_to_move[i][1], <<>>), p[1])
                 /\ ValueUnder(fibre_data, fc, parameters_to_move[i][1], p[1]) # p[2]

-----------------------------------------------------------------------------
(* C23: the order in which identify_section looks for a section            *)

\* for each text: the sections of the keyword table with a static keyword
\* in the text, and the first list of the secondary net with a word in it
StaticMatches ==
    [text \in RegistryTexts |->
        [sections |-> { StaticSectionKeywords[i][1] :
                          i \in { k \in 1..Len(StaticSectionKeywords) :
                                    AnyIn(StaticSectionKeywords[k][2], Lower(text)) } },
         net |-> FirstKey(FallbackWords,
                          LAMBDA item : \E j \in 1..Len(item[2]) :
                                           IsSubstr(item[2][j], Lower(text)))]]

\* a keyword of section, from the keyword table or learned, occurs in text
SectionMatches(section, text) ==
    \/ section \in StaticMatches[text].sections
    \/ AnyIn(DictGet(dynamic_params.section_keywords, section, <<>>), Lower(text))

\* the section the claim names for text: the first section of the keyword
\* table with a matching keyword; else the first learned section outside the
\* table with one; else the first list of the secondary net with a word in
\* the text; else 'General Information'
ExpectedSection(text) ==
    LET by_table == FirstKey(StaticSectionKeywords,
                             LAMBDA item : SectionMatches(item[1], text))
        by_learned == FirstKey(dynamic_params.section_keywords,
                               LAMBDA item : /\ ~DictHas(StaticSectionKeywords, item[1])
                                             /\ AnyIn(item[2], Lower(text)))
    IN IF by_table # None THEN by_table
       ELSE IF by_learned # None THEN by_learned
       ELSE IF StaticMatches[text].net # None THEN StaticMatches[text].net
       ELSE "General Information"

-----------------------------------------------------------------------------
(* C24: add_parameter_if_new with a name of the static table               *)

\* add_parameter_if_new(name, suggested_section) on the registry as it is
AddCall(name, suggested_section) ==
    add_parameter_if_new(Registry, name, suggested_section, None, None)

\* the static category whose list holds the name, case ignored
ListedUnder(name) == Static(Lower(name)).listed

\* C24: add_parameter_if_new called with a name that equals, case ignored, a
\* member of a static category returns the section of that member and
\* leaves the overlay (parameters, patterns, section keywords, descriptions)
\* and the overlay file as they were, whatever section was suggested.
C24_StaticNoOp ==
    \A name \in RegistryNames : \A suggested_section \in RegistrySections :
        ListedUnder(name) # None =>
            /\ AddCall(name, suggested_section).res = ListedUnder(name)
            /\ AddCall(name, suggested_section).reg.dynamic_params = dynamic_params
            /\ AddCall(name, suggested_section).reg.config_file = config_file

\* C24 witness: the registry has learned a name and can write its file;
\* add_parameter_if_new('Cable Diameter', 'Physical Specifications') returns
\* 'Cable Construction', the section of the static table, and changes
\* neither the overlay nor the file
C24_Witness ==
    /\ calls > 0
    /\ disk = "ok"
    /\ dynamic_params # EmptyOverlay
    /\ ListedUnder(Chars("Cable Diameter")) = "Cable Construction"
    /\ AddCall(Chars("Cable Diameter"), "Physical Specifications").res = "Cable Construction"
    /\ AddCall(Chars("Cable Diameter"), "Physical Specifications").reg.dynamic_params
          = dynamic_params
    /\ AddCall(Chars("Cable Diameter"), "Physical Specifications").reg.config_file
          = config_file

-----------------------------------------------------------------------------
(* C25: add_parameter_if_new when the overlay file cannot be written       *)

\* the section add_parameter_if_new files a new name under
TargetSection(name, suggested_section) ==
    IF suggested_section = None
    THEN identify_section_from_keywords(Registry, name).res
    ELSE suggested_section

\* add_parameter_if_new(name, suggested_section) reaches the write of the
\* overlay file: the name is in no static list and not yet in the overlay
\* list of its section, and it has a first word
ReachesSave(name, suggested_section) ==
    /\ ListedUnder(name) = None
    /\ Split(name) # <<>>
    /\ ~ \E j \in 1..Len(DictGet(dynamic_params.parameters,
                                 TargetSection(name, suggested_section), <<>>)) :
            Lower(DictGet(dynamic_params.parameters,
                          TargetSection(name, suggested_section), <<>>)[j])
                = Lower(name)

\* the registry holds the name in the overlay list of the section
OverlayLists(reg, section, name) ==
    \E j \in 1..Len(DictGet(reg.dynamic_params.parameters, section, <<>>)) :
        DictGet(reg.dynamic_params.parameters, section, <<>>)[j] = name

\* some name of the overlay list of the section contains the name or is
\* contained in it, case ignored
OverlayRelated(reg, section, name) ==
    \E j \in 1..Len(DictGet(reg.dynamic_params.parameters, section, <<>>)) :
        \/ IsSubstr(Lower(DictGet(reg.dynamic_params.parameters, section, <<>>)[j]),
                    Lower(name))
        \/ IsSubstr(Lower(name),
                    Lower(DictGet(reg.dynamic_params.parameters, section, <<>>)[j]))

\* what C25 says of one call and the registry it leaves
SavedInMemoryOnly(call, section, name) ==
    /\ call.res = section
    /\ OverlayLists(call.reg, section, name)
    /\ call.reg.config_file = config_file
    /\ ~ OverlayLists([dynamic_params |-> config_file], section, name)
    /\ Static(Lower(name)).category = None =>
          /\ OverlayRelated(call.reg, get_parameter_category(call.reg, name).res, name)
          /\ (\A i \in 1..Len(call.reg.dynamic_params.parameters) :
                  call.reg.dynamic_params.parameters[i][1] # section =>
                      ~ OverlayRelated(call.reg,
                                       call.reg.dynamic_params.parameters[i][1], name))
              => get_parameter_category(call.reg, name).res = section

\* C25: when the write of the overlay file fails during
\* add_parameter_if_new, the call still returns the section, the overlay in
\* memory holds the new name under it and answers the next classification
\* of the name, and the overlay file is as it was, without the name.
C25_SaveFailureNonFatal ==
    \A name \in RegistryNames : \A suggested_section \in RegistrySections :
        (disk = "readonly" /\ ReachesSave(name, suggested_section)) =>
            SavedInMemoryOnly(AddCall(name, suggested_section),
                              TargetSection(name, suggested_section), name)

\* C25 witness: the disk is read-only and 'Jacket Material' was added under
\* 'Cable Construction': the overlay lists it, the file does not, and the
\* name is categorised under 'Cable Construction'
C25_Witness ==
    /\ disk = "readonly"
    /\ calls > 0
    /\ OverlayLists(Registry, "Cable Construction", Chars("Jacket Material"))
    /\ ~ OverlayLists([dynamic_params |-> config_file], "Cable Construction",
                      Chars("Jacket Material"))
    /\ get_parameter_category(Registry, Chars("Jacket Material")).res
          = "Cable Construction"

-----------------------------------------------------------------------------
(* C26: the 'Fiber Count' parameter of a record                            *)

\* a row that lines 607-627 take as the header of the variants
IsFibreCountHeader(row) ==
    /\ Len(row) >= 1
    /\ CleanedRow(row)[1] # <<>>
    /\ Lower(CleanedRow(row)[1]) \notin
          {Chars(w) : w \in {"parameter", "sl.no.", "sr.no.", "specifications",
                             "description", "details", "type", "color",
                             "dimensions"}}
    /\ HasAny({"fibre count", "fiber count"}, Lower(CleanedRow(row)[1]))

\* the label of a variant without its unit marker, '24' for '24F'
VariantNumber(fc) == SubSeq(fc, 1, Len(fc) - 1)

\* every 'Fiber Count' the record of fc holds is the number of fc
OwnCountOnly(data, fc) ==
    \A k \in 1..Len(data[fc].Technical_Specifications) :
        DictGet(data[fc].Technical_Specifications[k][2], Chars("Fiber Count"),
                VariantNumber(fc)) = VariantNumber(fc)

\* C26: the step that processes a fibre-count header row leaves in the record
\* of every resolved variant a 'Fiber Count' equal to the variant's own label
\* without the unit marker, and in the final output every record that has a
\* 'Fiber Count' has it equal to the number of its own variant.
C26_FiberCountStamp ==
    /\ [][(/\ pc = "pages"
           /\ Head(todo).kind = "row"
           /\ IsFibreCountHeader(NextRow))
          => \A i \in 1..Len(detected_fiber_counts) :
                HoldsValue(fibre_data', detected_fiber_counts[i],
                           Chars("Fiber Count"),
                           VariantNumber(detected_fiber_counts[i]))]_vars
    /\ [](pc = "done" =>
            \A i \in 1..Len(detected_fiber_counts) :
                OwnCountOnly(fibre_data, detected_fiber_counts[i]))

\* C26 witness: a document with two variants is done and the record of each
\* holds its own number as 'Fiber Count'
C26_Witness ==
    /\ pc = "done"
    /\ Len(detected_fiber_counts) >= 2
    /\ detected_fiber_counts[1] # detected_fiber_counts[2]
    /\ \A i \in 1..Len(detected_fiber_counts) :
          HoldsValue(fibre_data, detected_fiber_counts[i], Chars("Fiber Count"),
                     VariantNumber(detected_fiber_counts[i]))

-----------------------------------------------------------------------------
(* C27: the fallback and the default of the resolver                       *)

\* the allow-listed labels the text of the document mentions
TextLabels == TextFiberCountSet(AllTextContent(pages))

\* the labels the three sources yield
SourceLabels ==
    { FilenameLabels[i] : i \in 1..Len(FilenameLabels) }
        \cup (IF CalculatedLabel = <<>> THEN {} ELSE {CalculatedLabel})
        \cup TextLabels

\* C27: when neither the filename nor construction arithmetic nor the text
\* yields an allow-listed label the resolved list is exactly ['24F']; when
\* some source yields one, the list is not empty and holds labels of the
\* sources only, so the default is used only when the cascade and the
\* text-detected list are both empty.
C27_FallbackDefault ==
    pc = "resolved" =>
        /\ SourceLabels = {} => detected_fiber_counts = <<Chars("24F")>>
        /\ SourceLabels # {} =>
              /\ detected_fiber_counts # <<>>
              /\ \A i \in 1..Len(detected_fiber_counts) :
                    detected_fiber_counts[i] \in SourceLabels

\* C27 witness: a document whose filename, tables and text yield no label
\* is resolved to ['24F']
C27_Witness ==
    /\ pc = "resolved"
    /\ SourceLabels = {}
    /\ detected_fiber_counts = <<Chars("24F")>>

-----------------------------------------------------------------------------
(* C28: the resolved list as a function of the document                    *)

\* C28: for a fixed filename, text and tables the resolved list, the order
\* of its labels included, is the same on every run: the list this run
\* resolved is the only list the resolver can produce for the document.
C28_ResolverDeterministic ==
    pc = "resolved" =>
        \A list \in ResolvedLists(filename, pages) : list = detected_fiber_counts

\* C28 counterexample: the filename names no label and the text mentions 24F
\* and 96F; this run resolved ['96F', '24F'] and another run of the same
\* document resolves ['24F', '96F']
C28_OrderVaries ==
    /\ pc = "resolved"
    /\ extract_primary_fiber_count_from_filename(filename) = <<>>
    /\ TextFiberCountSet(AllTextContent(pages)) = {Chars("24F"), Chars("96F")}
    /\ detected_fiber_counts = <<Chars("96F"), Chars("24F")>>
    /\ <<Chars("24F"), Chars("96F")>> \in ResolvedLists(filename, pages)

-----------------------------------------------------------------------------
(* C29: what a classification leaves of the registry                       *)

\* C29: identify_section and categorize_parameter leave the static keyword
\* table and the overlay as they were, for every text, so that no list
\* grows with the number of classifications.
C29_ClassificationReadOnly ==
    \A text \in RegistryTexts :
        /\ identify_section_from_keywords(Registry, text).reg = Registry
        /\ get_parameter_category(Registry, text).reg = Registry

\* C29 counterexample: the overlay holds the keyword 'Jacket' once under
\* 'Cable Construction' and the list of that section in the static table
\* has grown by two copies of it
C29_TableGrows ==
    /\ DictGet(dynamic_params.section_keywords, "Cable Construction", <<>>)
          = <<Chars("Jacket")>>
    /\ DictGet(SECTION_KEYWORDS, "Cable Construction", <<>>)
          = <<Chars("Jacket"), Chars("Jacket")>>

-----------------------------------------------------------------------------
(* C30: the names of a record across the Reconciliation Pass               *)

\* the names the record of variant fc holds under some section
NamesIn(data, fc) ==
    UNION { { data[fc].Technical_Specifications[k][2][j][1] :
                j \in 1..Len(data[fc].Technical_Specifications[k][2]) } :
            k \in 1..Len(data[fc].Technical_Specifications) }

\* the record of variant fc holds name under two sections or more, none of
\* them the section categorize_parameter returns for it
TwiceMisfiled(fc, name) ==
    /\ Cardinality(SectionsHolding(fc, name)) >= 2
    /\ CorrectSection(name) \notin SectionsHolding(fc, name)

\* C30: every parameter name a record holds under some section before the
\* Reconciliation Pass is held by that record after the pass, also when the
\* name was stored under two wrong sections.
C30_NoNameLost ==
    [][pc = "reconcile" =>
          \A fc \in DOMAIN fibre_data :
              NamesIn(fibre_data, fc) \subseteq NamesIn(fibre_data', fc)]_vars

\* the sections of the finished record of the last variant
LastSpecs ==
    fibre_data[detected_fiber_counts[Len(detected_fiber_counts)]].Technical_Specifications

\* C30 witness: the pass has finished; it took 'Fiber Count' out of 'General
\* Information' and out of 'Mechanical Characteristics', which it left
\* empty, and the record holds the name under 'Cable Construction'
C30_Witness ==
    /\ pc = "done"
    /\ detected_fiber_counts # <<>>
    /\ DictHas(LastSpecs, "General Information")
    /\ DictGet(LastSpecs, "General Information", <<>>) = <<>>
    /\ DictHas(LastSpecs, "Mechanical Characteristics")
    /\ DictGet(LastSpecs, "Mechanical Characteristics", <<>>) = <<>>
    /\ DictHas(DictGet(parameters_to_move, "Cable Construction", <<>>),
               Chars("Fiber Count"))
    /\ DictHas(DictGet(LastSpecs, "Cable Construction", <<>>), Chars("Fiber Count"))

====
